---- MODULE Spec2Model ----
(***************************************************************************)
(* State-machine model of the Tachyonic Engine (src/tachyonic.js): the     *)
(* session lifecycle (init / enter / exit), the triple-click trigger, the  *)
(* input handlers, the per-frame camera / mode update of renderLoop and    *)
(* the projection of the Void scene's geometry.                            *)
(*                                                                         *)
(* Real numbers are fixed-point integers: one unit is 1/Scale.  Times are  *)
(* integer milliseconds.  Every product is rounded to the nearest unit, as *)
(* IEEE arithmetic rounds to the nearest representable value.              *)
(***************************************************************************)
EXTENDS Integers, Sequences, FiniteSets, TLC

\* ------------------------------------------------------------------------
\* Fixed-point representation
\* ------------------------------------------------------------------------
Scale == 10000

\* a / b rounded to the nearest integer (b > 0)
RDiv(a, b) == (2 * a + b) \div (2 * b)

Min(a, b) == IF a <= b THEN a ELSE b
Max(a, b) == IF a >= b THEN a ELSE b

\* ------------------------------------------------------------------------
\* Program constants (fixed-point where they are reals)
\* ------------------------------------------------------------------------
MAX_ZOOM == 43000
HorizonEps == 500
EscapeRetreat == 5000
WheelGain == 30
YawPitchSmooth == 5
ZoomSmooth == 4
FrameMs == 16
EntryStep == 200
HorizonStep == 150
ClickWindowMs == 1200
ClickThreshold == 3
SensingAt == 2
SensingMs == 800
PiFix == 31416
YawSpan == 16
PitchSpan == 9

\* ------------------------------------------------------------------------
\* Bounds of the model
\* ------------------------------------------------------------------------
\* frames per session in the lifecycle specification
MaxShortFrames == 2
\* frames per session in the zoom specification
MaxFrames == 200
\* input events handled per session
MaxInputs == 2
\* in the zoom specification an input event arrives every InputEvery-th frame
InputEvery == 20
\* granularity of wall-clock time for the click timer
TickMs == 400
\* frames the zoom specification leaves for the camera to ease to its target
SettleFrames == 115

\* wheel deltas (deltaY) the environment produces
WheelDeltas == {-1500, 100, 1500}
\* keys the environment produces
Keys == {"Escape", "a"}
\* viewport sizes <<innerWidth, innerHeight>>
WindowSizes == {<<800, 600>>, <<1600, 900>>}
\* pointer positions inside a viewport sz
Pointers(sz) == {<<0, 0>>, <<sz[1] \div 2, sz[2] \div 2>>, <<sz[1], sz[2]>>}

ListenerTypes == {"mousemove", "keydown", "wheel", "resize"}

VARIABLES
    initState,        \* "none" | "ok" | "threw" : outcome of init(config)
    cubeContainer,    \* "null" | "element"
    onExitCallback,   \* "null" | "fn"
    clickListeners,   \* click listeners attached to the trigger element
    clickCount,       \* closure variable of init's click listener
    clickTimer,       \* ms until the pending reset timeout fires, -1 if none
    clickAges,        \* ms elapsed since each click counted in clickCount
    cubeSensing,      \* 'cube-sensing' CSS marker on the trigger element
    sensingTimers,    \* ms until each pending marker-removal timeout fires
    isExpanded,
    ctxAvailable,     \* whether the canvas can supply a 2D context
    hyperCtx,         \* "null" | "ctx"
    hyperAnimId,      \* 0 is null
    rafPending,       \* ids of the animation-frame callbacks pending
    listeners,        \* listener type -> number of times attached
    activeClass,      \* 'hypercube-active' / 'active' CSS markers set
    canvasSize,
    windowSize,
    camYaw, camPitch, targetYaw, targetPitch, camZoom, targetZoom,
    hyperTime, entryAlpha, inEventHorizon, horizonAlpha,
    inputCount,       \* input events handled in this session
    maxTarget,        \* history: largest target zoom set in this session
    geometry,         \* the tables outerV, innerV and edges
    trace,            \* what the last handler did
    \* script.js, initCodeStack
    cardCount,        \* cards.length; 0 until initCodeStack has run
    currentIndex,
    isAnimating,
    animTimer,        \* ms left of the 500 ms timeout, -1 when none is pending
    animAge,          \* history: ms since isAnimating was last set
    cardClass,        \* card index -> position class of the card
    dotActive,        \* indices of the dots that carry 'active'
    hintShown,
    touchStartY,
    \* genome-organisms.js, OrganismEcosystem and AtomConsciousness
    running,
    organisms,        \* this.organisms: [age, maxAge] of each, all alive between callbacks
    spawnTimer,
    burstTimers,      \* ms left of each pending initial-burst timeout
    emergeTimers,     \* ms left of each pending 3.5 s hover timeout
    atomAware,        \* the logo carries 'atom-aware'
    ecoFrames,        \* frames _loop has run
    hoverCount        \* mouseenter events on the logo so far

clickVars == <<clickCount, clickTimer, clickAges, cubeSensing, sensingTimers>>
initVars == <<initState, cubeContainer, onExitCallback, clickListeners>>
camVars == <<camYaw, camPitch, targetYaw, targetPitch, camZoom, targetZoom,
             hyperTime, entryAlpha, inEventHorizon, horizonAlpha>>
sessVars == <<isExpanded, hyperCtx, hyperAnimId, rafPending, listeners,
              activeClass, canvasSize, inputCount,
              maxTarget>>
engineVars == <<camVars, sessVars, geometry>>
envVars == <<ctxAvailable, windowSize>>
stackVars == <<cardCount, currentIndex, isAnimating, animTimer, animAge,
               cardClass, dotActive, hintShown, touchStartY>>
ecoVars == <<running, organisms, spawnTimer, burstTimers, emergeTimers,
             atomAware, ecoFrames, hoverCount>>
pageVars == <<stackVars, ecoVars>>
vars == <<initVars, clickVars, engineVars, envVars, trace, pageVars>>

\* the record left in trace by a handler
Did(calls, threw, scene) ==
    [calls |-> calls, threw |-> threw, scene |-> scene]


\* ------------------------------------------------------------------------
\* Host environment: listeners, animation frames
\* ------------------------------------------------------------------------
\* addEventListener: an identical (type, callback) pair is not added twice
AddEventListener(ls, t) == IF ls[t] >= 1 THEN ls ELSE [ls EXCEPT ![t] = 1]

RemoveEventListener(ls, t) == [ls EXCEPT ![t] = Max(0, ls[t] - 1)]

AttachAll(ls) ==
    AddEventListener(AddEventListener(AddEventListener(AddEventListener(
        ls, "mousemove"), "keydown"), "wheel"), "resize")

DetachAll(ls) ==
    RemoveEventListener(RemoveEventListener(RemoveEventListener(
        RemoveEventListener(ls, "mousemove"), "keydown"), "wheel"), "resize")

\* requestAnimationFrame returns a handle that is not pending
NewFrameId(pending) ==
    CHOOSE i \in 1..(Cardinality(pending) + 1) :
        i \notin pending /\ \A j \in 1..(i - 1) : j \in pending

\* ------------------------------------------------------------------------
\* 3D math: rotation and perspective projection
\* ------------------------------------------------------------------------
\* fixed-point product
Mul(a, b) == RDiv(a * b, Scale)

\* Math.sin at the angles k * 2 PI / TurnSteps, k = 0 .. TurnSteps / 4
TurnSteps == 48
SinTab == <<0, 1305, 2588, 3827, 5000, 6088, 7071, 7934, 8660, 9239, 9659,
            9914, 10000>>

\* the table angle nearest to a (radians), as a step number in 0 .. TurnSteps-1
AngleIndex(a) == RDiv(a * (TurnSteps \div 2), PiFix) % TurnSteps

SinOfStep(k) ==
    LET q == TurnSteps \div 4
    IN  IF k <= q THEN SinTab[k + 1]
        ELSE IF k <= 2 * q THEN SinTab[2 * q - k + 1]
        ELSE IF k <= 3 * q THEN 0 - SinTab[k - 2 * q + 1]
        ELSE 0 - SinTab[4 * q - k + 1]

Sin(a) == SinOfStep(AngleIndex(a))
Cos(a) == SinOfStep((AngleIndex(a) + TurnSteps \div 4) % TurnSteps)

\* [p[0]*c - p[2]*s, p[1], p[0]*s + p[2]*c]
RotY(p, a) ==
    <<Mul(p[1], Cos(a)) - Mul(p[3], Sin(a)),
      p[2],
      Mul(p[1], Sin(a)) + Mul(p[3], Cos(a))>>

\* [p[0], p[1]*c - p[2]*s, p[1]*s + p[2]*c]
RotX(p, a) ==
    <<p[1],
      Mul(p[2], Cos(a)) - Mul(p[3], Sin(a)),
      Mul(p[2], Sin(a)) + Mul(p[3], Cos(a))>>

\* what proj returns for a point that is not drawn
Null == << >>

CamDist == 50000
DepthCull == 1000
Fov == 600

\* (mutation of Proj: points are culled at depth 0, not at 0.1)
ProjCullAtZero(p, w, h) ==
    LET z == p[3] + CamDist - camZoom
    IN  IF z <= 0 THEN Null
        ELSE <<w \div 2 + RDiv(p[1] * Fov, z),
               h \div 2 + RDiv(p[2] * Fov, z),
               z>>

\* proj(p, w, h): the perspective divide, or null at a depth of 0.1 or less;
\* screen coordinates are whole pixels
Proj(p, w, h) ==
    LET z == p[3] + CamDist - camZoom
    IN  IF z <= DepthCull THEN Null
        ELSE <<w \div 2 + RDiv(p[1] * Fov, z),
               h \div 2 + RDiv(p[2] * Fov, z),
               z>>

\* the point in camera space
CameraSpace(p) == RotX(RotY(p, 0 - camYaw), 0 - camPitch)

Xform(p, w, h) == Proj(CameraSpace(p), w, h)

\* ------------------------------------------------------------------------
\* Geometry
\* ------------------------------------------------------------------------
OuterHalf == 35000
InnerHalf == 10000
GridLines == 12
SphereRadius == 4500
SphereRings == 12
SphereSegments == 16

CubeV(s) ==
    << <<0 - s, 0 - s, 0 - s>>, <<s, 0 - s, 0 - s>>, <<s, s, 0 - s>>,
       <<0 - s, s, 0 - s>>,
       <<0 - s, 0 - s, s>>, <<s, 0 - s, s>>, <<s, s, s>>, <<0 - s, s, s>> >>

\* the tables as the module body builds them; the vertex indices in edges
\* are those of the source, plus one
InitialGeometry ==
    [ outerV |-> CubeV(OuterHalf),
      innerV |-> CubeV(InnerHalf),
      edges  |-> << <<1, 2>>, <<2, 3>>, <<3, 4>>, <<4, 1>>,
                    <<5, 6>>, <<6, 7>>, <<7, 8>>, <<8, 5>>,
                    <<1, 5>>, <<2, 6>>, <<3, 7>>, <<4, 8>> >> ]

\* the tables are arrays of the engine's closure, read on every frame
outerV == geometry.outerV
innerV == geometry.innerV
edges == geometry.edges

\* hyperTime is in ms: hyperTime * 0.4 rad is 4 units per ms
InnerAngle == hyperTime * 4

\* innerV.map(v => rotX(rotY(v, ia), ia * 0.6))
rotInner ==
    [i \in DOMAIN innerV |->
        RotX(RotY(innerV[i], InnerAngle), RDiv(InnerAngle * 6, 10))]

\* the two end points of each segment a part of the scene may draw
OuterPairs == [i \in DOMAIN edges |-> <<outerV[edges[i][1]], outerV[edges[i][2]]>>]
InnerPairs == [i \in DOMAIN edges |-> <<rotInner[edges[i][1]], rotInner[edges[i][2]]>>]
\* (mutation of HyperPairs: one connection per edge instead of per vertex)
HyperPairsPerEdge ==
    [i \in DOMAIN edges |-> <<outerV[edges[i][1]], rotInner[edges[i][2]]>>]

HyperPairs == [i \in DOMAIN outerV |-> <<outerV[i], rotInner[i]>>]

\* drawGrid: for i = 0 .. gridLines, one line along z and one along x
GridY == RDiv(OuterHalf * 95, 100)
GridOffset(i) == RDiv(2 * OuterHalf * i, GridLines) - OuterHalf
GridPairs ==
    [k \in 1..(2 * (GridLines + 1)) |->
        LET offset == GridOffset((k - 1) \div 2)
        IN  IF k % 2 = 1
            THEN << <<offset, GridY, 0 - OuterHalf>>, <<offset, GridY, OuterHalf>> >>
            ELSE << <<0 - OuterHalf, GridY, offset>>, <<OuterHalf, GridY, offset>> >>]

\* the point of the core sphere at ring and seg, rotated by the clock
SpherePoint(ring, seg) ==
    LET phi   == RDiv(ring * PiFix, SphereRings)
        theta == RDiv(seg * 2 * PiFix, SphereSegments)
        y     == Mul(Cos(phi), SphereRadius)
        r     == Mul(Sin(phi), SphereRadius)
        pt    == <<Mul(Cos(theta), r), y, Mul(Sin(theta), r)>>
    IN  RotX(RotY(pt, RDiv(hyperTime * 25, 10)), RDiv(hyperTime * 15, 10))

\* the points of latitude ring `ring`, seg = 0 .. sphereSegments
RingPoints(ring) == [k \in 1..(SphereSegments + 1) |-> SpherePoint(ring, k - 1)]
\* the points of longitude line `seg`, ring = 0 .. sphereRings
LongitudePoints(seg) == [k \in 1..(SphereRings + 1) |-> SpherePoint(k - 1, seg)]

\* ------------------------------------------------------------------------
\* renderLoop: the camera and mode update of one frame
\* ------------------------------------------------------------------------
\* (mutation of Ease: the current value jumps to the target)
EaseSnap(cur, tgt, pct) == tgt

\* (mutation of Ease: the current value is not subtracted from the target)
EaseAdds(cur, tgt, pct) == cur + RDiv(tgt * pct, 100)

\* cur += (tgt - cur) * pct/100
Ease(cur, tgt, pct) == cur + RDiv((tgt - cur) * pct, 100)

\* (mutation of EntryFade: neither the test nor the clamp at 1)
EntryFadeUnbounded(ea) == ea + EntryStep

\* (mutation of EntryFade: the step of the horizon fade is used)
EntryFadeSlow(ea) == IF ea < Scale THEN Min(Scale, ea + HorizonStep) ELSE ea

\* if (entryAlpha < 1) entryAlpha = Math.min(1, entryAlpha + 0.02)
EntryFade(ea) == IF ea < Scale THEN Min(Scale, ea + EntryStep) ELSE ea

\* (mutation of CrossesHorizon: the epsilon below MAX_ZOOM is lost)
CrossesHorizonNoEps(cz, ieh) == cz >= MAX_ZOOM /\ ~ieh

\* (mutation of CrossesHorizon: the test on the mode flag is lost)
CrossesHorizonAlways(cz, ieh) == cz >= MAX_ZOOM - HorizonEps

\* camZoom >= MAX_ZOOM - 0.05 && !inEventHorizon
CrossesHorizon(cz, ieh) == cz >= MAX_ZOOM - HorizonEps /\ ~ieh

\* (mutation of HorizonFade: the clamp at 1 is lost)
HorizonFadeUnclamped(ha) == ha + HorizonStep

\* horizonAlpha = Math.min(1, horizonAlpha + 0.015)
HorizonFade(ha) == Min(Scale, ha + HorizonStep)

\* (mutation of ApproachFade: the falloff is 0.8 instead of 0.6)
ApproachFadeSteep(cz) == Max(0, Scale - RDiv(cz * 8 * (Scale \div 10), MAX_ZOOM))

\* Math.max(0, 1 - (camZoom / MAX_ZOOM) * 0.6)
ApproachFade(cz) == Max(0, Scale - RDiv(cz * 6 * (Scale \div 10), MAX_ZOOM))

\* (mutation of RenderLoopStep: the mode follows the zoom in every frame)
RenderLoopStepModeFollowsZoom(c) ==
    LET cz  == Ease(c.camZoom, c.targetZoom, ZoomSmooth)
        sw  == CrossesHorizon(cz, c.inEventHorizon)
        ieh == cz >= MAX_ZOOM - HorizonEps
        ha0 == IF sw THEN 0 ELSE c.horizonAlpha
    IN  [ hyperTime      |-> c.hyperTime + FrameMs,
          entryAlpha     |-> EntryFade(c.entryAlpha),
          camYaw         |-> Ease(c.camYaw, c.targetYaw, YawPitchSmooth),
          camPitch       |-> Ease(c.camPitch, c.targetPitch, YawPitchSmooth),
          camZoom        |-> cz,
          targetYaw      |-> c.targetYaw,
          targetPitch    |-> c.targetPitch,
          targetZoom     |-> c.targetZoom,
          inEventHorizon |-> ieh,
          horizonAlpha   |-> IF ieh THEN HorizonFade(ha0) ELSE ha0,
          scene          |-> IF ieh THEN "horizon" ELSE "void" ]

\* The state after the update part of renderLoop, and the scene it goes on
\* to draw.  c is a record of the camera variables.
RenderLoopStep(c) ==
    LET cz  == Ease(c.camZoom, c.targetZoom, ZoomSmooth)
        sw  == CrossesHorizon(cz, c.inEventHorizon)
        ieh == c.inEventHorizon \/ sw
        ha0 == IF sw THEN 0 ELSE c.horizonAlpha
    IN  [ hyperTime      |-> c.hyperTime + FrameMs,
          entryAlpha     |-> EntryFade(c.entryAlpha),
          camYaw         |-> Ease(c.camYaw, c.targetYaw, YawPitchSmooth),
          camPitch       |-> Ease(c.camPitch, c.targetPitch, YawPitchSmooth),
          camZoom        |-> cz,
          targetYaw      |-> c.targetYaw,
          targetPitch    |-> c.targetPitch,
          targetZoom     |-> c.targetZoom,
          inEventHorizon |-> ieh,
          horizonAlpha   |-> IF ieh THEN HorizonFade(ha0) ELSE ha0,
          scene          |-> IF ieh THEN "horizon" ELSE "void" ]

\* the camera after n consecutive frames with no handler in between
RECURSIVE RenderLoopN(_, _)
RenderLoopN(c, n) ==
    IF n = 0 THEN c ELSE RenderLoopN(RenderLoopStep(c), n - 1)

Camera ==
    [ hyperTime |-> hyperTime, entryAlpha |-> entryAlpha,
      camYaw |-> camYaw, camPitch |-> camPitch, camZoom |-> camZoom,
      targetYaw |-> targetYaw, targetPitch |-> targetPitch,
      targetZoom |-> targetZoom,
      inEventHorizon |-> inEventHorizon, horizonAlpha |-> horizonAlpha ]

\* (mutation of EnterReset: the camera zoom of the last session is kept)
EnterResetKeepsZoom ==
    [ hyperTime |-> 0, entryAlpha |-> 0,
      camYaw |-> 0, camPitch |-> 0, camZoom |-> camZoom,
      targetYaw |-> 0, targetPitch |-> 0, targetZoom |-> 0,
      inEventHorizon |-> FALSE, horizonAlpha |-> 0 ]

\* (mutation of EnterReset: the mode flag is not cleared)
EnterResetKeepsMode ==
    [ hyperTime |-> 0, entryAlpha |-> 0,
      camYaw |-> 0, camPitch |-> 0, camZoom |-> 0,
      targetYaw |-> 0, targetPitch |-> 0, targetZoom |-> 0,
      inEventHorizon |-> inEventHorizon, horizonAlpha |-> 0 ]

\* the values enter() assigns before it calls renderLoop
EnterReset ==
    [ hyperTime |-> 0, entryAlpha |-> 0,
      camYaw |-> 0, camPitch |-> 0, camZoom |-> 0,
      targetYaw |-> 0, targetPitch |-> 0, targetZoom |-> 0,
      inEventHorizon |-> FALSE, horizonAlpha |-> 0 ]

SetCamera(r) ==
    /\ hyperTime' = r.hyperTime
    /\ entryAlpha' = r.entryAlpha
    /\ camYaw' = r.camYaw
    /\ camPitch' = r.camPitch
    /\ camZoom' = r.camZoom
    /\ targetYaw' = r.targetYaw
    /\ targetPitch' = r.targetPitch
    /\ targetZoom' = r.targetZoom
    /\ inEventHorizon' = r.inEventHorizon
    /\ horizonAlpha' = r.horizonAlpha

\* (mutation of TablesAfterDraw: the inner cube is rotated in place)
TablesRotatedInPlace(g) == [g EXCEPT !.innerV = rotInner]

\* The tables after the Void scene has been drawn from them.  rotY, rotX and
\* proj return new arrays and innerV.map builds a new array for rotInner:
\* the drawing assigns no element of outerV, innerV or edges.
TablesAfterDraw(g) == g

\* (mutation of RenderLoop: the first step is only scheduled, not run)
RenderLoopOnlySchedules(c, ctx, pending) ==
    /\ SetCamera(c)
    /\ geometry' = geometry
    /\ IF ctx = "ctx"
       THEN /\ hyperAnimId' = NewFrameId(pending)
            /\ rafPending' = pending \cup {NewFrameId(pending)}
       ELSE /\ hyperAnimId' = hyperAnimId
            /\ rafPending' = pending

\* renderLoop run with the session active: the update, then the drawing,
\* which dereferences the context (a null context throws before the next
\* frame is requested), then requestAnimationFrame(renderLoop).
RenderLoop(c, ctx, pending) ==
    LET r == RenderLoopStep(c)
    IN  /\ SetCamera(r)
        /\ geometry' = IF ctx = "ctx" /\ r.scene = "void"
                        THEN TablesAfterDraw(geometry)
                        ELSE geometry
        /\ IF ctx = "ctx"
           THEN /\ hyperAnimId' = NewFrameId(pending)
                /\ rafPending' = pending \cup {NewFrameId(pending)}
           ELSE /\ hyperAnimId' = hyperAnimId
                /\ rafPending' = pending

\* ------------------------------------------------------------------------
\* enter() and exit()
\* ------------------------------------------------------------------------
GetContext == IF ctxAvailable THEN "ctx" ELSE "null"

\* (mutation of EnterBody: the guard on isExpanded is lost)
EnterBodyUnguarded ==
    /\ isExpanded' = TRUE
    /\ canvasSize' = windowSize
    /\ hyperCtx' = GetContext
    /\ activeClass' = TRUE
    /\ listeners' = AttachAll(listeners)
    /\ inputCount' = 0
    /\ maxTarget' = 0
    /\ RenderLoop(EnterReset, GetContext, rafPending)

EnterBody ==
    IF isExpanded
    THEN UNCHANGED engineVars
    ELSE /\ isExpanded' = TRUE
         /\ canvasSize' = windowSize
         /\ hyperCtx' = GetContext
         /\ activeClass' = TRUE
         /\ listeners' = AttachAll(listeners)
         /\ inputCount' = 0
         /\ maxTarget' = 0
         /\ RenderLoop(EnterReset, GetContext, rafPending)

\* calls made and outcome of enter() in the current state
EnterThrows == ~isExpanded /\ GetContext = "null"
EnterScene == IF isExpanded \/ EnterThrows THEN "none" ELSE "void"

\* (mutation of ExitBody: the four listeners stay attached)
ExitBodyKeepsListeners ==
    IF ~isExpanded
    THEN UNCHANGED engineVars
    ELSE /\ isExpanded' = FALSE
         /\ activeClass' = FALSE
         /\ listeners' = listeners
         /\ rafPending' = IF hyperAnimId # 0 THEN rafPending \ {hyperAnimId}
                                              ELSE rafPending
         /\ hyperAnimId' = 0
         /\ UNCHANGED <<camVars, hyperCtx, canvasSize, inputCount,
                      maxTarget, geometry>>

\* (mutation of ExitBody: the pending frame is not cancelled)
ExitBodyKeepsFrame ==
    IF ~isExpanded
    THEN UNCHANGED engineVars
    ELSE /\ isExpanded' = FALSE
         /\ activeClass' = FALSE
         /\ listeners' = DetachAll(listeners)
         /\ rafPending' = rafPending
         /\ hyperAnimId' = 0
         /\ UNCHANGED <<camVars, hyperCtx, canvasSize, inputCount,
                      maxTarget, geometry>>

ExitBody ==
    IF ~isExpanded
    THEN UNCHANGED engineVars
    ELSE /\ isExpanded' = FALSE
         /\ activeClass' = FALSE
         /\ listeners' = DetachAll(listeners)
         /\ rafPending' = IF hyperAnimId # 0 THEN rafPending \ {hyperAnimId}
                                              ELSE rafPending
         /\ hyperAnimId' = 0
         /\ UNCHANGED <<camVars, hyperCtx, canvasSize, inputCount,
                      maxTarget, geometry>>

\* (mutation of ExitCalls: the callback runs before the guard on isExpanded)
ExitCallsUnguarded ==
    IF onExitCallback = "fn" THEN <<"exit", "onExit">> ELSE <<"exit">>

\* if (onExitCallback) onExitCallback()
ExitCalls ==
    IF isExpanded /\ onExitCallback = "fn" THEN <<"exit", "onExit">>
                                           ELSE <<"exit">>


\* ------------------------------------------------------------------------
\* Initial state: the module body of the engine has run
\* ------------------------------------------------------------------------
\* the other widgets of the page before their init functions have run
PageIdle ==
    /\ cardCount = 0 /\ currentIndex = 0
    /\ isAnimating = FALSE /\ animTimer = -1 /\ animAge = 0
    /\ cardClass = << >> /\ dotActive = {}
    /\ hintShown = TRUE /\ touchStartY = 0
    /\ running = FALSE /\ organisms = << >> /\ spawnTimer = 0
    /\ burstTimers = {} /\ emergeTimers = {}
    /\ atomAware = FALSE
    /\ ecoFrames = 0 /\ hoverCount = 0

Init ==
    /\ PageIdle
    /\ initState = "none"
    /\ cubeContainer = "null"
    /\ onExitCallback = "null"
    /\ clickListeners = 0
    /\ clickCount = 0
    /\ clickTimer = -1
    /\ clickAges = << >>
    /\ cubeSensing = FALSE
    /\ sensingTimers = {}
    /\ isExpanded = FALSE
    /\ ctxAvailable \in BOOLEAN
    /\ hyperCtx = "null"
    /\ hyperAnimId = 0
    /\ rafPending = {}
    /\ listeners = [t \in ListenerTypes |-> 0]
    /\ activeClass = FALSE
    /\ canvasSize = <<300, 150>>
    /\ windowSize \in WindowSizes
    /\ camYaw = 0 /\ camPitch = 0 /\ targetYaw = 0 /\ targetPitch = 0
    /\ camZoom = 0 /\ targetZoom = 0
    /\ hyperTime = 0 /\ entryAlpha = 0
    /\ inEventHorizon = FALSE /\ horizonAlpha = 0
    /\ inputCount = 0
    /\ maxTarget = 0
    /\ geometry = InitialGeometry
    /\ trace = Did(<< >>, FALSE, "none")

\* ------------------------------------------------------------------------
\* init(config)
\* ------------------------------------------------------------------------
\* cc is config.cubeContainer, cb is config.onExit.  A null cubeContainer
\* makes cubeContainer.addEventListener throw after the two assignments.
InitEngine(cc, cb) ==
    /\ initState = "none"
    /\ cubeContainer' = cc
    /\ onExitCallback' = cb
    /\ IF cc = "element"
       THEN /\ clickListeners' = clickListeners + 1
            /\ initState' = "ok"
            /\ trace' = Did(<<"init">>, FALSE, "none")
       ELSE /\ clickListeners' = clickListeners
            /\ initState' = "threw"
            /\ trace' = Did(<<"init">>, TRUE, "none")
    /\ UNCHANGED <<pageVars, clickVars, engineVars, envVars>>

\* ------------------------------------------------------------------------
\* The click listener of the trigger element and its reset timeout
\* ------------------------------------------------------------------------
\* (mutation of ClickFires: one click too many is needed)
ClickFiresLate(n) == n > ClickThreshold

\* clickCount >= 3
ClickFires(n) == n >= ClickThreshold

\* (mutation of Click: the return while the session is active is lost)
ClickCountsWhileActive ==
    IF clickListeners = 0
    THEN /\ trace' = Did(<< >>, FALSE, "none")
         /\ UNCHANGED <<pageVars, initVars, clickVars, engineVars, envVars>>
    ELSE /\ clickTimer' = ClickWindowMs
         /\ IF clickCount + 1 = SensingAt
            THEN /\ cubeSensing' = TRUE
                 /\ sensingTimers' = sensingTimers \cup {SensingMs}
            ELSE UNCHANGED <<cubeSensing, sensingTimers>>
         /\ IF ClickFires(clickCount + 1)
            THEN /\ clickCount' = 0
                 /\ clickAges' = << >>
                 /\ EnterBody
                 /\ trace' = Did(<<"click", "enter">>, EnterThrows, EnterScene)
            ELSE /\ clickCount' = clickCount + 1
                 /\ clickAges' = Append(clickAges, 0)
                 /\ UNCHANGED engineVars
                 /\ trace' = Did(<<"click">>, FALSE, "none")
         /\ UNCHANGED <<pageVars, initVars, envVars>>

Click ==
    IF clickListeners = 0
    THEN /\ trace' = Did(<< >>, FALSE, "none")
         /\ UNCHANGED <<pageVars, initVars, clickVars, engineVars, envVars>>
    ELSE IF isExpanded
    THEN /\ trace' = Did(<<"click">>, FALSE, "none")
         /\ UNCHANGED <<pageVars, initVars, clickVars, engineVars, envVars>>
    ELSE /\ clickTimer' = ClickWindowMs
         /\ IF clickCount + 1 = SensingAt
            THEN /\ cubeSensing' = TRUE
                 /\ sensingTimers' = sensingTimers \cup {SensingMs}
            ELSE UNCHANGED <<cubeSensing, sensingTimers>>
         /\ IF ClickFires(clickCount + 1)
            THEN /\ clickCount' = 0
                 /\ clickAges' = << >>
                 /\ EnterBody
                 /\ trace' = Did(<<"click", "enter">>, EnterThrows, EnterScene)
            ELSE /\ clickCount' = clickCount + 1
                 /\ clickAges' = Append(clickAges, 0)
                 /\ UNCHANGED engineVars
                 /\ trace' = Did(<<"click">>, FALSE, "none")
         /\ UNCHANGED <<pageVars, initVars, envVars>>

\* TickMs of wall-clock time pass; the timeouts that come due run:
\* () => { clickCount = 0; } and () => classList.remove('cube-sensing')
Tick ==
    /\ clickTimer >= 0 \/ sensingTimers # {}
    /\ sensingTimers' = {t - TickMs : t \in {u \in sensingTimers : u > TickMs}}
    /\ cubeSensing' = IF \E t \in sensingTimers : t <= TickMs THEN FALSE
                                                           ELSE cubeSensing
    /\ IF clickTimer >= 0 /\ clickTimer <= TickMs
       THEN /\ clickTimer' = -1
            /\ clickCount' = 0
            /\ clickAges' = << >>
            /\ trace' = Did(<<"clickTimeout">>, FALSE, "none")
       ELSE /\ clickTimer' = IF clickTimer >= 0 THEN clickTimer - TickMs ELSE -1
            /\ clickCount' = clickCount
            /\ clickAges' = [i \in DOMAIN clickAges |-> clickAges[i] + TickMs]
            /\ trace' = Did(<< >>, FALSE, "none")
    /\ UNCHANGED <<pageVars, initVars, engineVars, envVars>>

\* ------------------------------------------------------------------------
\* Public API called by the page
\* ------------------------------------------------------------------------
EnterAPI ==
    /\ EnterBody
    /\ trace' = Did(<<"enter">>, EnterThrows, EnterScene)
    /\ UNCHANGED <<pageVars, initVars, clickVars, envVars>>

ExitAPI ==
    /\ ExitBody
    /\ trace' = Did(ExitCalls, FALSE, "none")
    /\ UNCHANGED <<pageVars, initVars, clickVars, envVars>>

\* exit() with an onExit callback that calls enter(): the callback runs last
\* in exit(), once the session is marked inactive, the listeners are removed
\* and the frame is cancelled, so enter() passes its guard and runs whole;
\* an exception of enter() leaves through the callback and exit().
ExitReentering ==
    /\ onExitCallback = "fn"
    /\ IF ~isExpanded
       THEN /\ UNCHANGED engineVars
            /\ trace' = Did(<<"exit">>, FALSE, "none")
       ELSE /\ isExpanded' = TRUE
            /\ canvasSize' = windowSize
            /\ hyperCtx' = GetContext
            /\ activeClass' = TRUE
            /\ listeners' = AttachAll(DetachAll(listeners))
            /\ inputCount' = 0
            /\ maxTarget' = 0
            /\ RenderLoop(EnterReset, GetContext,
                          IF hyperAnimId # 0 THEN rafPending \ {hyperAnimId}
                                             ELSE rafPending)
            /\ trace' = Did(<<"exit", "onExit", "enter">>, GetContext = "null",
                            IF GetContext = "null" THEN "none" ELSE "void")
    /\ UNCHANGED <<pageVars, initVars, clickVars, envVars>>

\* ------------------------------------------------------------------------
\* Input handlers
\* ------------------------------------------------------------------------
FrameNo == hyperTime \div FrameMs

\* an input event may arrive in this state: every frame when every = 1
InputOpen(every) ==
    /\ inputCount < MaxInputs
    /\ FrameNo % every = 1 % every

\* (mutation of LookAngle: the pointer position is not centred)
LookAngleUncentred(pos, extent, span) ==
    RDiv(RDiv(RDiv(pos * Scale, extent) * PiFix, Scale) * span, 10)

\* ((e.clientX / window.innerWidth) - 0.5) * Math.PI * span/10
LookAngle(pos, extent, span) ==
    RDiv(RDiv((RDiv(pos * Scale, extent) - Scale \div 2) * PiFix, Scale) * span, 10)

MouseMove(every) ==
    \E p \in Pointers(windowSize) :
        IF listeners["mousemove"] = 0
        THEN /\ trace' = Did(<< >>, FALSE, "none")
             /\ UNCHANGED <<pageVars, initVars, clickVars, engineVars, envVars>>
        ELSE /\ InputOpen(every)
             /\ targetYaw' = LookAngle(p[1], windowSize[1], YawSpan)
             /\ targetPitch' = LookAngle(p[2], windowSize[2], PitchSpan)
             /\ inputCount' = inputCount + 1
             /\ maxTarget' = maxTarget
             /\ geometry' = geometry
             /\ trace' = Did(<<"onHyperMouse">>, FALSE, "none")
             /\ UNCHANGED <<camYaw, camPitch, camZoom, targetZoom, hyperTime,
                            entryAlpha, inEventHorizon, horizonAlpha>>
             /\ UNCHANGED <<isExpanded, hyperCtx, hyperAnimId, rafPending,
                            listeners, activeClass, canvasSize>>
             /\ UNCHANGED <<pageVars, initVars, clickVars, envVars>>

\* targetZoom = MAX_ZOOM - 0.5
RetreatZoom == MAX_ZOOM - EscapeRetreat

\* (mutation of OnHyperKey: Escape in EventHorizon mode snaps the camera to
\* the retreat zoom)
OnHyperKeySnapsZoom(key) ==
    IF key # "Escape"
    THEN /\ inputCount' = inputCount + 1
         /\ maxTarget' = maxTarget
         /\ geometry' = geometry
         /\ trace' = Did(<<"onHyperKey">>, FALSE, "none")
         /\ UNCHANGED <<camVars, isExpanded, hyperCtx, hyperAnimId,
                        rafPending, listeners, activeClass, canvasSize>>
    ELSE IF inEventHorizon
    THEN /\ inEventHorizon' = FALSE
         /\ targetZoom' = RetreatZoom
         /\ camZoom' = RetreatZoom
         /\ inputCount' = inputCount + 1
         /\ maxTarget' = Max(maxTarget, RetreatZoom)
         /\ geometry' = geometry
         /\ trace' = Did(<<"onHyperKey">>, FALSE, "none")
         /\ UNCHANGED <<camYaw, camPitch, targetYaw, targetPitch,
                        hyperTime, entryAlpha, horizonAlpha>>
         /\ UNCHANGED <<isExpanded, hyperCtx, hyperAnimId,
                        rafPending, listeners, activeClass, canvasSize>>
    ELSE /\ ExitBody
         /\ trace' = Did(<<"onHyperKey">> \o ExitCalls, FALSE, "none")

\* (mutation of OnHyperKey: the test on e.key is lost)
OnHyperKeyAnyKey(key) ==
    IF inEventHorizon
    THEN /\ inEventHorizon' = FALSE
         /\ targetZoom' = RetreatZoom
         /\ inputCount' = inputCount + 1
         /\ maxTarget' = Max(maxTarget, RetreatZoom)
         /\ geometry' = geometry
         /\ trace' = Did(<<"onHyperKey">>, FALSE, "none")
         /\ UNCHANGED <<camYaw, camPitch, targetYaw, targetPitch,
                        camZoom, hyperTime, entryAlpha, horizonAlpha>>
         /\ UNCHANGED <<isExpanded, hyperCtx, hyperAnimId,
                        rafPending, listeners, activeClass, canvasSize>>
    ELSE /\ ExitBody
         /\ trace' = Did(<<"onHyperKey">> \o ExitCalls, FALSE, "none")

\* onHyperKey(e) with e.key = key
OnHyperKey(key) ==
    IF key # "Escape"
    THEN /\ inputCount' = inputCount + 1
         /\ maxTarget' = maxTarget
         /\ geometry' = geometry
         /\ trace' = Did(<<"onHyperKey">>, FALSE, "none")
         /\ UNCHANGED <<camVars, isExpanded, hyperCtx, hyperAnimId,
                        rafPending, listeners, activeClass, canvasSize>>
    ELSE IF inEventHorizon
    THEN /\ inEventHorizon' = FALSE
         /\ targetZoom' = RetreatZoom
         /\ inputCount' = inputCount + 1
         /\ maxTarget' = Max(maxTarget, RetreatZoom)
         /\ geometry' = geometry
         /\ trace' = Did(<<"onHyperKey">>, FALSE, "none")
         /\ UNCHANGED <<camYaw, camPitch, targetYaw, targetPitch,
                        camZoom, hyperTime, entryAlpha, horizonAlpha>>
         /\ UNCHANGED <<isExpanded, hyperCtx, hyperAnimId,
                        rafPending, listeners, activeClass, canvasSize>>
    ELSE /\ ExitBody
         /\ trace' = Did(<<"onHyperKey">> \o ExitCalls, FALSE, "none")

\* a key is pressed; onHyperKey runs if it is attached
KeyDown(every) ==
    \E key \in Keys :
        IF listeners["keydown"] = 0
        THEN /\ trace' = Did(<< >>, FALSE, "none")
             /\ UNCHANGED <<pageVars, initVars, clickVars, engineVars, envVars>>
        ELSE /\ InputOpen(every)
             /\ OnHyperKey(key)
             /\ UNCHANGED <<pageVars, initVars, clickVars, envVars>>

\* (mutation of ClampZoom: the upper clamp is lost)
ClampZoomNoUpper(z) == Max(0, z)

\* Math.max(0, Math.min(MAX_ZOOM, z))
ClampZoom(z) == Max(0, Min(MAX_ZOOM, z))

\* targetZoom += e.deltaY * 0.003, clamped
WheelZoom(tz, deltaY) == ClampZoom(tz + deltaY * WheelGain)

\* (mutation of Wheel: the return in EventHorizon mode is lost)
WheelIgnoringMode(every) ==
    \E deltaY \in WheelDeltas :
        IF listeners["wheel"] = 0
        THEN /\ trace' = Did(<< >>, FALSE, "none")
             /\ UNCHANGED <<pageVars, initVars, clickVars, engineVars, envVars>>
        ELSE /\ InputOpen(every)
             /\ targetZoom' = WheelZoom(targetZoom, deltaY)
             /\ inputCount' = inputCount + 1
             /\ maxTarget' = Max(maxTarget, targetZoom')
             /\ geometry' = geometry
             /\ trace' = Did(<<"onHyperWheel">>, FALSE, "none")
             /\ UNCHANGED <<camYaw, camPitch, targetYaw, targetPitch, camZoom,
                            hyperTime, entryAlpha, inEventHorizon,
                            horizonAlpha>>
             /\ UNCHANGED <<isExpanded, hyperCtx, hyperAnimId, rafPending,
                            listeners, activeClass, canvasSize>>
             /\ UNCHANGED <<pageVars, initVars, clickVars, envVars>>

\* the wheel turns; onHyperWheel runs if it is attached
Wheel(every) ==
    \E deltaY \in WheelDeltas :
        IF listeners["wheel"] = 0
        THEN /\ trace' = Did(<< >>, FALSE, "none")
             /\ UNCHANGED <<pageVars, initVars, clickVars, engineVars, envVars>>
        ELSE /\ InputOpen(every)
             /\ targetZoom' = IF inEventHorizon THEN targetZoom
                              ELSE WheelZoom(targetZoom, deltaY)
             /\ inputCount' = inputCount + 1
             /\ maxTarget' = Max(maxTarget, targetZoom')
             /\ geometry' = geometry
             /\ trace' = Did(<<"onHyperWheel">>, FALSE, "none")
             /\ UNCHANGED <<camYaw, camPitch, targetYaw, targetPitch, camZoom,
                            hyperTime, entryAlpha, inEventHorizon,
                            horizonAlpha>>
             /\ UNCHANGED <<isExpanded, hyperCtx, hyperAnimId, rafPending,
                            listeners, activeClass, canvasSize>>
             /\ UNCHANGED <<pageVars, initVars, clickVars, envVars>>

\* the viewport changes size; onHyperResize runs if it is attached
Resize ==
    \E sz \in WindowSizes \ {windowSize} :
        /\ windowSize' = sz
        /\ IF listeners["resize"] = 0
           THEN /\ canvasSize' = canvasSize
                /\ trace' = Did(<< >>, FALSE, "none")
           ELSE /\ canvasSize' = sz
                /\ trace' = Did(<<"onHyperResize">>, FALSE, "none")
        /\ UNCHANGED <<camVars, isExpanded, hyperCtx, hyperAnimId, rafPending,
                       listeners, activeClass, inputCount,
                       maxTarget, geometry>>
        /\ UNCHANGED <<pageVars, initVars, clickVars, ctxAvailable>>

\* ------------------------------------------------------------------------
\* The host runs a pending animation-frame callback
\* ------------------------------------------------------------------------
FrameCallback(limit) ==
    \E id \in rafPending :
        /\ FrameNo < limit
        /\ IF ~isExpanded
           THEN /\ rafPending' = rafPending \ {id}
                /\ trace' = Did(<<"renderLoop">>, FALSE, "none")
                /\ UNCHANGED <<camVars, isExpanded, hyperCtx, hyperAnimId,
                               listeners, activeClass, canvasSize,
                               inputCount, maxTarget, geometry>>
           ELSE /\ RenderLoop(Camera, hyperCtx, rafPending \ {id})
                /\ trace' = Did(<<"renderLoop">>, hyperCtx = "null",
                                IF hyperCtx = "null" THEN "none"
                                ELSE RenderLoopStep(Camera).scene)
                /\ UNCHANGED <<isExpanded, hyperCtx, listeners, activeClass,
                               canvasSize, inputCount, maxTarget>>
        /\ UNCHANGED <<pageVars, initVars, clickVars, envVars>>

\* ------------------------------------------------------------------------
\* Drawing: the lines stroked on the canvas
\* ------------------------------------------------------------------------
\* moveTo(pa[0], pa[1]); lineTo(pb[0], pb[1]); stroke()
Line(pa, pb) == [from |-> pa, to |-> pb]

\* if (!pa || !pb) return; ... stroke()
EdgeLine(pa, pb) == IF pa = Null \/ pb = Null THEN << >> ELSE <<Line(pa, pb)>>

RECURSIVE EdgeLines(_, _, _, _)
EdgeLines(pairs, i, w, h) ==
    IF i > Len(pairs) THEN << >>
    ELSE EdgeLine(Xform(pairs[i][1], w, h), Xform(pairs[i][2], w, h))
            \o EdgeLines(pairs, i + 1, w, h)

\* let prevP = null; for each point: if (sp && prevP) stroke; prevP = sp
RECURSIVE PolyLines(_, _, _, _, _)
PolyLines(pts, i, prevP, w, h) ==
    IF i > Len(pts) THEN << >>
    ELSE LET sp == Xform(pts[i], w, h)
         IN  (IF sp # Null /\ prevP # Null THEN <<Line(prevP, sp)>> ELSE << >>)
                \o PolyLines(pts, i + 1, sp, w, h)

\* for (ring = 1; ring < sphereRings; ring++)
RECURSIVE LatitudeLines(_, _, _)
LatitudeLines(ring, w, h) ==
    IF ring >= SphereRings THEN << >>
    ELSE PolyLines(RingPoints(ring), 1, Null, w, h)
            \o LatitudeLines(ring + 1, w, h)

\* for (seg = 0; seg < sphereSegments; seg++)
RECURSIVE LongitudeLines(_, _, _)
LongitudeLines(seg, w, h) ==
    IF seg >= SphereSegments THEN << >>
    ELSE PolyLines(LongitudePoints(seg), 1, Null, w, h)
            \o LongitudeLines(seg + 1, w, h)

\* the lines one part of the Void scene strokes in the current state
PartLines(part) ==
    LET w == canvasSize[1]
        h == canvasSize[2]
    IN  CASE part = "grid"      -> EdgeLines(GridPairs, 1, w, h)
          [] part = "outerCube" -> EdgeLines(OuterPairs, 1, w, h)
          [] part = "innerCube" -> EdgeLines(InnerPairs, 1, w, h)
          [] part = "hyper"     -> EdgeLines(HyperPairs, 1, w, h)
          [] part = "latitude"  -> LatitudeLines(1, w, h)
          [] part = "longitude" -> LongitudeLines(0, w, h)

\* the record left in trace by a part of the drawing
Drew(part, lines) ==
    [calls |-> <<part>>, threw |-> FALSE, scene |-> "void", lines |-> lines]

\* one part of the Void branch of renderLoop draws on the canvas
Draw(part) ==
    /\ isExpanded /\ ~inEventHorizon /\ hyperCtx = "ctx"
    /\ trace.calls = << >>
    /\ trace' = Drew(part, PartLines(part))
    /\ geometry' = TablesAfterDraw(geometry)
    /\ UNCHANGED <<pageVars, initVars, clickVars, camVars, sessVars, envVars>>

DrawGrid == Draw("grid")
DrawOuterCube == Draw("outerCube")
DrawInnerCube == Draw("innerCube")
DrawHyperConnections == Draw("hyper")
DrawLatitudeRings == Draw("latitude")
DrawLongitudeLines == Draw("longitude")

\* camera states the projection is applied in: yaw within 0.8 PI and pitch
\* within 0.45 PI of 0, zoom below the horizon threshold, any clock
YawSamples == {0 - 23562, 0, 7854}
PitchSamples == {0, 7854}
ZoomSamples == {0, 14500, 30000, 42000}
ClockSamples == {60 * FrameMs, 250 * FrameMs, 1000 * FrameMs}

\* a session in Void mode, about to draw
InitProj ==
    /\ PageIdle
    /\ initState = "ok"
    /\ cubeContainer = "element"
    /\ onExitCallback = "fn"
    /\ clickListeners = 1
    /\ clickCount = 0
    /\ clickTimer = -1
    /\ clickAges = << >>
    /\ cubeSensing = FALSE
    /\ sensingTimers = {}
    /\ isExpanded = TRUE
    /\ ctxAvailable = TRUE
    /\ hyperCtx = "ctx"
    /\ hyperAnimId = 1
    /\ rafPending = {1}
    /\ listeners = [t \in ListenerTypes |-> 1]
    /\ activeClass = TRUE
    /\ windowSize \in WindowSizes
    /\ canvasSize = windowSize
    /\ camYaw \in YawSamples /\ targetYaw = camYaw
    /\ camPitch \in PitchSamples /\ targetPitch = camPitch
    /\ camZoom \in ZoomSamples /\ targetZoom = camZoom
    /\ hyperTime \in ClockSamples
    /\ entryAlpha = Scale
    /\ inEventHorizon = FALSE /\ horizonAlpha = 0
    /\ inputCount = 0
    /\ maxTarget = camZoom
    /\ geometry = InitialGeometry
    /\ trace = Did(<< >>, FALSE, "void")

\* ------------------------------------------------------------------------
\* script.js: the code stack navigator (initCodeStack)
\* ------------------------------------------------------------------------
AnimMs == 500
SwipeMin == 50

MaxCards == 6
StackTickMs == 250

CardCounts == 1..MaxCards
StackWheelDeltas == {-100, 0, 100}
StackKeys == {"ArrowUp", "ArrowLeft", "ArrowDown", "ArrowRight", "Enter"}
TouchYs == {0, 40, 100}

Cards == 0..(cardCount - 1)

BehindClass(distance) == <<"behind-1", "behind-2", "behind-3", "behind-4">>[distance]

\* the classes updateStack(activeIndex, direction) leaves on card i
CardClassOf(i, activeIndex, direction) ==
    IF i = activeIndex
    THEN {"active"} \cup (IF direction = "up" THEN {"entering-up"} ELSE {})
                    \cup (IF direction = "down" THEN {"entering-down"} ELSE {})
    ELSE LET distance == i - activeIndex
         IN  IF distance > 0 /\ distance <= 4 THEN {BehindClass(distance)}
             ELSE IF distance < 0 THEN {"behind-4"}
             ELSE {}

\* updateStack(activeIndex, direction) on n cards
UpdateStack(n, activeIndex, direction) ==
    /\ cardClass' = [i \in 0..(n - 1) |-> CardClassOf(i, activeIndex, direction)]
    /\ dotActive' = {i \in 0..(n - 1) : i = activeIndex}

\* what a stack handler leaves in trace
StackDid(name) == Did(<<"stack", name>>, FALSE, "none")

\* initCodeStack() on a page with n cards
InitCodeStack(n) ==
    /\ cardCount = 0
    /\ cardCount' = n
    /\ currentIndex' = 0
    /\ isAnimating' = FALSE
    /\ animTimer' = -1
    /\ animAge' = 0
    /\ UpdateStack(n, 0, "none")
    /\ hintShown' = TRUE
    /\ touchStartY' = 0
    /\ trace' = StackDid("initCodeStack")
    /\ UNCHANGED <<ecoVars, initVars, clickVars, engineVars, envVars>>

\* (mutation of GoToCard: the test of isAnimating is lost)
GoToCardWhileAnimating(index, direction) ==
    IF index = currentIndex \/ index < 0 \/ index >= cardCount
    THEN UNCHANGED <<cardCount, currentIndex, isAnimating, animTimer, animAge,
                     cardClass, dotActive, hintShown>>
    ELSE /\ isAnimating' = TRUE
         /\ hintShown' = FALSE
         /\ currentIndex' = index
         /\ UpdateStack(cardCount, index, direction)
         /\ animTimer' = AnimMs
         /\ animAge' = 0
         /\ cardCount' = cardCount

\* goToCard(index, direction)
GoToCard(index, direction) ==
    IF isAnimating \/ index = currentIndex \/ index < 0 \/ index >= cardCount
    THEN UNCHANGED <<cardCount, currentIndex, isAnimating, animTimer, animAge,
                     cardClass, dotActive, hintShown>>
    ELSE /\ isAnimating' = TRUE
         /\ hintShown' = FALSE
         /\ currentIndex' = index
         /\ UpdateStack(cardCount, index, direction)
         /\ animTimer' = AnimMs
         /\ animAge' = 0
         /\ cardCount' = cardCount

StackRest == UNCHANGED <<ecoVars, initVars, clickVars, engineVars, envVars>>

\* the arrow buttons
ArrowClick ==
    /\ cardCount > 0
    /\ \E dir \in {"up", "down"} :
         /\ GoToCard(IF dir = "up" THEN currentIndex - 1 ELSE currentIndex + 1, dir)
         /\ trace' = StackDid("arrow")
    /\ touchStartY' = touchStartY
    /\ StackRest

\* a dot
DotClick ==
    /\ cardCount > 0
    /\ \E i \in Cards :
         GoToCard(i, IF i < currentIndex THEN "up" ELSE "down")
    /\ trace' = StackDid("dot")
    /\ touchStartY' = touchStartY
    /\ StackRest

\* a card
CardClick ==
    /\ cardCount > 0
    /\ \E i \in Cards :
         IF i # currentIndex
         THEN GoToCard(i, IF i < currentIndex THEN "up" ELSE "down")
         ELSE UNCHANGED <<cardCount, currentIndex, isAnimating, animTimer,
                          animAge, cardClass, dotActive, hintShown>>
    /\ trace' = StackDid("card")
    /\ touchStartY' = touchStartY
    /\ StackRest

\* the wheel over the container
StackWheel ==
    /\ cardCount > 0
    /\ \E deltaY \in StackWheelDeltas :
         IF isAnimating
         THEN UNCHANGED <<cardCount, currentIndex, isAnimating, animTimer,
                          animAge, cardClass, dotActive, hintShown>>
         ELSE IF deltaY > 0 THEN GoToCard(currentIndex + 1, "down")
                            ELSE GoToCard(currentIndex - 1, "up")
    /\ trace' = StackDid("wheel")
    /\ touchStartY' = touchStartY
    /\ StackRest

\* a key with the container focused
StackKey ==
    /\ cardCount > 0
    /\ \E key \in StackKeys :
         IF key \in {"ArrowUp", "ArrowLeft"}
         THEN GoToCard(currentIndex - 1, "up")
         ELSE IF key \in {"ArrowDown", "ArrowRight"}
         THEN GoToCard(currentIndex + 1, "down")
         ELSE UNCHANGED <<cardCount, currentIndex, isAnimating, animTimer,
                          animAge, cardClass, dotActive, hintShown>>
    /\ trace' = StackDid("keydown")
    /\ touchStartY' = touchStartY
    /\ StackRest

TouchStart ==
    /\ cardCount > 0
    /\ \E y \in TouchYs : touchStartY' = y
    /\ trace' = StackDid("touchstart")
    /\ UNCHANGED <<cardCount, currentIndex, isAnimating, animTimer, animAge,
                   cardClass, dotActive, hintShown>>
    /\ StackRest

\* the end of a swipe
TouchEnd ==
    /\ cardCount > 0
    /\ \E touchEndY \in TouchYs :
         LET diff == touchStartY - touchEndY
         IN  IF diff > SwipeMin THEN GoToCard(currentIndex + 1, "down")
             ELSE IF 0 - diff > SwipeMin THEN GoToCard(currentIndex - 1, "up")
             ELSE UNCHANGED <<cardCount, currentIndex, isAnimating, animTimer,
                              animAge, cardClass, dotActive, hintShown>>
    /\ trace' = StackDid("touchend")
    /\ touchStartY' = touchStartY
    /\ StackRest

\* StackTickMs of time pass; the timeout of goToCard runs when it is due:
\* () => { isAnimating = false; }
StackTick ==
    /\ animTimer >= 0
    /\ IF animTimer <= StackTickMs
       THEN /\ animTimer' = -1
            /\ isAnimating' = FALSE
            /\ trace' = StackDid("timeout")
       ELSE /\ animTimer' = animTimer - StackTickMs
            /\ isAnimating' = isAnimating
            /\ trace' = Did(<< >>, FALSE, "none")
    /\ animAge' = animAge + StackTickMs
    /\ UNCHANGED <<cardCount, currentIndex, cardClass, dotActive, hintShown,
                   touchStartY>>
    /\ StackRest

\* ------------------------------------------------------------------------
\* genome-organisms.js: OrganismEcosystem and the logo's AtomConsciousness
\* ------------------------------------------------------------------------
MaxCount == 10          \* CONFIG.organisms.maxCount
SpawnInterval == 5000   \* CONFIG.organisms.spawnInterval, ms
MaxDt == 50             \* Math.min(ts - this.lastFrame, 50)
BurstTypes == 7         \* length of the initial burst's type list
BurstGapMs == 800       \* setTimeout(..., i * 800)
MinMaxAge == 30000      \* maxAge = 30000 + Math.random() * 60000, lowest value
FadeInMs == 2000        \* if (this.age < 2000)
EmergeMs == 3500        \* the second timeout of _onHoverStart
EmergeMaxAge == 8000    \* org.maxAge = 8000

EcoFrameMs == 50        \* ms between two frames of _loop
MaxEcoFrames == 340     \* frames of _loop
MaxHovers == 2          \* mouseenter events on the logo
HoverEvery == 20        \* the pointer crosses the logo's edge at every n-th frame

EcoDid(name) == Did(<<"eco", name>>, FALSE, "none")

EcoRest == UNCHANGED <<stackVars, initVars, clickVars, engineVars, envVars>>

\* new GenomeOrganism(...): age 0, alive; maxAge is random in 30 s .. 90 s,
\* the model takes the shortest life
GenomeOrganism == [age |-> 0, maxAge |-> MinMaxAge]

\* the 3.5 s callback of _onHoverStart: the state stays 'dormant' without a
\* click, so the test is the 'atom-aware' class only; the organism is
\* pushed on ecosystem.organisms directly
EmergeOrganism(orgs) ==
    Append(orgs, [GenomeOrganism EXCEPT !.maxAge = EmergeMaxAge])

\* _spawn(type): nothing when maxCount organisms are alive (every organism
\* of the array is alive between two callbacks, _loop filters the dead out)
SpawnOrganism(orgs) ==
    IF Len(orgs) >= MaxCount
    THEN orgs
    ELSE Append(orgs, GenomeOrganism)

\* GenomeOrganism.update(dt), as far as age and alive go
Aged(o, dt) == [o EXCEPT !.age = o.age + dt]
AliveAfterUpdate(o) ==
    ~(o.age >= FadeInMs /\ o.age > o.maxAge - 3000 /\ o.age >= o.maxAge)

TimerDue(timers) == \E t \in timers : t <= 0
Earliest(timers) == CHOOSE t \in timers : \A u \in timers : t <= u
Elapse(timers, ms) == {t - ms : t \in timers}

\* OrganismEcosystem.init(), after the genome was fetched
EcoInit ==
    /\ ~running
    /\ running' = TRUE
    /\ burstTimers' = {i * BurstGapMs : i \in 0..(BurstTypes - 1)}
    /\ trace' = EcoDid("init")
    /\ UNCHANGED <<organisms, spawnTimer, emergeTimers, atomAware, ecoFrames,
                   hoverCount>>
    /\ EcoRest

\* a timeout of the initial burst comes due: () => this._spawn(t)
BurstSpawn ==
    /\ running
    /\ TimerDue(burstTimers)
    /\ burstTimers' = burstTimers \ {Earliest(burstTimers)}
    /\ organisms' = SpawnOrganism(organisms)
    /\ trace' = EcoDid("_spawn")
    /\ UNCHANGED <<running, spawnTimer, emergeTimers, atomAware, ecoFrames,
                   hoverCount>>
    /\ EcoRest

\* mouseenter on the logo: _onHoverStart()
HoverStart ==
    /\ running
    /\ ~atomAware
    /\ hoverCount < MaxHovers
    /\ ecoFrames % HoverEvery = 0
    /\ EmergeMs \notin emergeTimers
    /\ atomAware' = TRUE
    /\ emergeTimers' = emergeTimers \cup {EmergeMs}
    /\ hoverCount' = hoverCount + 1
    /\ trace' = EcoDid("_onHoverStart")
    /\ UNCHANGED <<running, organisms, spawnTimer, burstTimers, ecoFrames>>
    /\ EcoRest

\* mouseleave on the logo: _onHoverEnd(); the 3.5 s timeout is not cleared
HoverEnd ==
    /\ running
    /\ atomAware
    /\ ecoFrames % HoverEvery = 0
    /\ atomAware' = FALSE
    /\ trace' = EcoDid("_onHoverEnd")
    /\ UNCHANGED <<running, organisms, spawnTimer, burstTimers, emergeTimers,
                   ecoFrames, hoverCount>>
    /\ EcoRest

\* a 3.5 s timeout of _onHoverStart comes due
Emerge ==
    /\ running
    /\ TimerDue(emergeTimers)
    /\ emergeTimers' = emergeTimers \ {Earliest(emergeTimers)}
    /\ organisms' = IF atomAware THEN EmergeOrganism(organisms) ELSE organisms
    /\ trace' = EcoDid("emerge")
    /\ UNCHANGED <<running, spawnTimer, burstTimers, atomAware, ecoFrames,
                   hoverCount>>
    /\ EcoRest

\* _loop(ts), EcoFrameMs after the previous frame and after the timeouts
\* that came due before it
EcoLoop ==
    /\ running
    /\ ~TimerDue(burstTimers) /\ ~TimerDue(emergeTimers)
    /\ ecoFrames < MaxEcoFrames
    /\ LET dt == Min(EcoFrameMs, MaxDt)
           due == spawnTimer + dt > SpawnInterval
           spawned == IF due THEN SpawnOrganism(organisms) ELSE organisms
           updated == [i \in DOMAIN spawned |-> Aged(spawned[i], dt)]
       IN /\ spawnTimer' = IF due THEN 0 ELSE spawnTimer + dt
          /\ organisms' = SelectSeq(updated, AliveAfterUpdate)
    /\ burstTimers' = Elapse(burstTimers, EcoFrameMs)
    /\ emergeTimers' = Elapse(emergeTimers, EcoFrameMs)
    /\ ecoFrames' = ecoFrames + 1
    /\ trace' = EcoDid("_loop")
    /\ UNCHANGED <<running, atomAware, hoverCount>>
    /\ EcoRest

\* ------------------------------------------------------------------------
\* Specifications
\* ------------------------------------------------------------------------
\* Lifecycle: every operation, short sessions
Next ==
    \/ \E cc \in {"null", "element"}, cb \in {"null", "fn"} : InitEngine(cc, cb)
    \/ Click
    \/ Tick
    \/ EnterAPI
    \/ ExitAPI
    \/ MouseMove(1)
    \/ KeyDown(1)
    \/ Wheel(1)
    \/ Resize
    \/ FrameCallback(MaxShortFrames)

Spec == Init /\ [][Next]_vars

\* Zoom: sessions long enough to reach the event horizon and fade it in
NextZoom ==
    \/ EnterAPI
    \/ ExitAPI
    \/ KeyDown(InputEvery)
    \/ Wheel(InputEvery)
    \/ FrameCallback(MaxFrames)

SpecZoom == Init /\ [][NextZoom]_vars

\* Approach: a session that is zoomed by the wheel and is not ended, with the
\* host running every animation frame it has been asked for; wheel events
\* arrive at every third input slot
NextApproach ==
    \/ EnterAPI
    \/ Wheel(3 * InputEvery)
    \/ FrameCallback(MaxFrames)

SpecApproach ==
    Init /\ [][NextApproach]_vars /\ WF_vars(FrameCallback(MaxFrames))

\* Look: a session that is not ended, with every input handler (pointer,
\* key, wheel, resize) and long runs of frames
NextLook ==
    \/ EnterAPI
    \/ MouseMove(3 * InputEvery)
    \/ KeyDown(3 * InputEvery)
    \/ Wheel(3 * InputEvery)
    \/ Resize
    \/ FrameCallback(MaxFrames)

SpecLook == Init /\ [][NextLook]_vars

\* Clicks: the trigger element, its click counter and timeouts, and the
\* public API, with no input events and no frames
NextClick ==
    \/ \E cc \in {"null", "element"}, cb \in {"null", "fn"} : InitEngine(cc, cb)
    \/ Click
    \/ Tick
    \/ EnterAPI
    \/ ExitAPI

SpecClick == Init /\ [][NextClick]_vars

\* Re-entry: sessions that are ended and started again, by the page or
\* from inside the exit callback, with wheel input and a few frames each
NextReenter ==
    \/ \E cc \in {"null", "element"}, cb \in {"null", "fn"} : InitEngine(cc, cb)
    \/ EnterAPI
    \/ ExitAPI
    \/ ExitReentering
    \/ Wheel(1)
    \/ FrameCallback(MaxShortFrames)

SpecReenter == Init /\ [][NextReenter]_vars

\* Stack: the code stack navigator of the page
NextStack ==
    \/ \E n \in CardCounts : InitCodeStack(n)
    \/ ArrowClick
    \/ DotClick
    \/ CardClick
    \/ StackWheel
    \/ StackKey
    \/ TouchStart
    \/ TouchEnd
    \/ StackTick

SpecStack == Init /\ [][NextStack]_vars

\* Ecosystem: the organisms of the page and the pointer over the logo
NextEco ==
    \/ EcoInit
    \/ BurstSpawn
    \/ HoverStart
    \/ HoverEnd
    \/ Emerge
    \/ EcoLoop

SpecEco == Init /\ [][NextEco]_vars

\* Projection: the parts of the Void scene drawn from sampled camera states
NextProj ==
    \/ DrawGrid
    \/ DrawOuterCube
    \/ DrawInnerCube
    \/ DrawHyperConnections
    \/ DrawLatitudeRings
    \/ DrawLongitudeLines

SpecProj == InitProj /\ [][NextProj]_vars

\* ------------------------------------------------------------------------
\* Properties
\* ------------------------------------------------------------------------
AllAttachedOnce == \A t \in ListenerTypes : listeners[t] = 1
NoneAttached == \A t \in ListenerTypes : listeners[t] = 0

\* the handler of the step called enter() / exit() from the page
EnterCalled == trace'.calls \in {<<"enter">>, <<"click", "enter">>}
ClickHandled == Len(trace'.calls) > 0 /\ trace'.calls[1] = "click"
ExitApiCalled == Len(trace'.calls) > 0 /\ trace'.calls[1] = "exit"

\* C1: between handlers, isExpanded holds exactly when one animation frame
\* is pending and each of the four input listeners is attached once; when it
\* does not hold, no frame is pending and no listener is attached.
C1_ExpandedIffFrameAndListeners ==
    /\ isExpanded => (Cardinality(rafPending) = 1 /\ AllAttachedOnce)
    /\ ~isExpanded => (rafPending = {} /\ NoneAttached)

\* C2: an Escape key event in EventHorizon mode clears the flag, keeps the
\* session, sets target zoom to MAX_ZOOM - 0.5, below the re-entry
\* threshold, and the next frame does not switch back to EventHorizon.
EscapeFromHorizon ==
    /\ isExpanded /\ inEventHorizon
    /\ trace'.calls = <<"onHyperKey">>
    /\ ~inEventHorizon'

C2_EscapeLeavesHorizon ==
    [][EscapeFromHorizon =>
         /\ isExpanded'
         /\ targetZoom' = MAX_ZOOM - EscapeRetreat
         /\ targetZoom' < MAX_ZOOM - HorizonEps
         /\ ~RenderLoopStep(Camera').inEventHorizon]_vars

\* C3: target zoom stays within [0, MAX_ZOOM] in every reachable state.
C3_TargetZoomClamped == 0 <= targetZoom /\ targetZoom <= MAX_ZOOM

\* a wheel event whose sum was above MAX_ZOOM has been handled
C3_Witness ==
    /\ trace.calls = <<"onHyperWheel">>
    /\ targetZoom = MAX_ZOOM
    /\ ~inEventHorizon

\* C4: a click calls enter() only if the first of the three clicks is at
\* most 1.2 s old: three clicks spread over more than 1.2 s never enter.
C4_SpreadClicksNeverEnter ==
    [][trace'.calls = <<"click", "enter">> =>
         (Len(clickAges) >= 1 /\ clickAges[1] <= ClickWindowMs)]_vars

\* C5: while inactive, the third of three clicks within 1.2 s calls enter()
\* exactly once; the first two call nothing; a click during the session
\* calls nothing and changes nothing.
C5_TripleClickEntersOnce ==
    [][ClickHandled =>
         IF isExpanded
         THEN trace'.calls = <<"click">> /\ UNCHANGED <<engineVars, clickVars>>
         ELSE IF Len(clickAges) = ClickThreshold - 1
                 /\ clickAges[1] < ClickWindowMs
         THEN /\ trace'.calls = <<"click", "enter">>
              /\ isExpanded'
              /\ clickCount' = 0
         ELSE Len(clickAges) < ClickThreshold - 1 =>
                (trace'.calls = <<"click">> /\ ~isExpanded')]_vars

\* the third click has called enter()
C5_Witness ==
    /\ trace.calls = <<"click", "enter">>
    /\ isExpanded
    /\ clickCount = 0

\* C6: init with an absent trigger element raises no error, attaches no
\* listener and leaves the engine inactive.
C6_InitAbsentTriggerSilent ==
    (trace.calls = <<"init">> /\ cubeContainer = "null") =>
        (~trace.threw /\ clickListeners = 0 /\ initState # "threw")

\* C7: without a 2D context activation is declined without throwing: the
\* engine is inactive, no listener is attached and no frame is pending.
C7_NoContextDeclines ==
    ~ctxAvailable =>
        (~trace.threw /\ ~isExpanded /\ NoneAttached /\ rafPending = {})

\* C8: enter() from the inactive state reaches one state whatever the
\* earlier session left: camera and targets 0, both alphas reset (entry
\* alpha then advanced by the first frame), Void mode, session active, the
\* four listeners attached and the first animation frame scheduled.
C8_EnterResets ==
    [][(~isExpanded /\ EnterCalled) =>
         /\ camYaw' = 0 /\ camPitch' = 0 /\ camZoom' = 0
         /\ targetYaw' = 0 /\ targetPitch' = 0 /\ targetZoom' = 0
         /\ entryAlpha' = EntryStep /\ horizonAlpha' = 0
         /\ hyperTime' = FrameMs
         /\ ~inEventHorizon'
         /\ isExpanded'
         /\ AllAttachedOnce'
         /\ Cardinality(rafPending') = 1]_vars

\* C9: enter() during a session changes nothing: camera, alphas, mode,
\* clock, listeners and the pending frame are as before.
C9_EnterWhileActiveNoop ==
    [][(isExpanded /\ EnterCalled) =>
         /\ UNCHANGED <<engineVars, clickVars, initVars, envVars>>
         /\ AllAttachedOnce'
         /\ ~trace'.threw]_vars

\* enter() has been called in a session that has run frames since it began
C9_Witness ==
    /\ trace.calls = <<"enter">>
    /\ trace.scene = "none"
    /\ ~trace.threw
    /\ isExpanded
    /\ hyperTime > FrameMs
    /\ Cardinality(rafPending) = 1

\* C10: exit() while inactive changes no state, removes no listener,
\* cancels no frame, does not invoke the exit callback and raises nothing.
C10_ExitWhileInactiveNoop ==
    [][(~isExpanded /\ ExitApiCalled) =>
         /\ UNCHANGED <<engineVars, clickVars, initVars, envVars>>
         /\ trace'.calls = <<"exit">>
         /\ ~trace'.threw]_vars

\* exit() has been called while inactive with an exit callback supplied
C10_Witness ==
    /\ trace.calls = <<"exit">>
    /\ onExitCallback = "fn"
    /\ ~isExpanded

\* number of times name occurs in a sequence of calls
CountOf(calls, name) == Cardinality({i \in DOMAIN calls : calls[i] = name})

\* C11: the exit callback runs exactly once in a step whose exit() ends an
\* active session (from the page or from Escape in Void mode) with a
\* callback supplied, and in no other step; it runs last, when the session is
\* inactive, the listeners are detached and no frame is pending.
C11_ExitCallbackOncePerExit ==
    [][/\ CountOf(trace'.calls, "onExit") =
            IF isExpanded /\ ~isExpanded' /\ onExitCallback = "fn" THEN 1 ELSE 0
       /\ CountOf(trace'.calls, "onExit") > 0 =>
            /\ trace'.calls[Len(trace'.calls)] = "onExit"
            /\ ~isExpanded'
            /\ NoneAttached'
            /\ rafPending' = {}
            /\ hyperAnimId' = 0]_vars

\* Escape in Void mode has ended a session that had a frame pending, and the
\* callback has run
C11_Witness ==
    /\ trace.calls = <<"onHyperKey", "exit", "onExit">>
    /\ ~isExpanded
    /\ hyperCtx = "ctx"
    /\ rafPending = {}

\* C12: during a session in Void mode an Escape key event calls exit() once
\* and ends the session; any other key changes no engine state.
C12_EscapeInVoidExits ==
    [][\A key \in Keys :
         (/\ isExpanded /\ ~inEventHorizon
          /\ Len(trace'.calls) > 0 /\ trace'.calls[1] = "onHyperKey"
          /\ OnHyperKey(key)) =>
            IF key = "Escape"
            THEN /\ CountOf(trace'.calls, "exit") = 1
                 /\ ~isExpanded'
            ELSE /\ CountOf(trace'.calls, "exit") = 0
                 /\ UNCHANGED <<camVars, isExpanded, hyperCtx, hyperAnimId,
                                rafPending, listeners, activeClass,
                                canvasSize>>]_vars

\* Escape in Void mode has ended a session begun by a triple click
C12_Witness ==
    /\ Len(trace.calls) >= 2
    /\ trace.calls[1] = "onHyperKey" /\ trace.calls[2] = "exit"
    /\ ~isExpanded
    /\ ~inEventHorizon
    /\ initState = "ok"

\* the step is a frame callback of an active session
FrameRan == isExpanded /\ trace'.calls = <<"renderLoop">>

\* the step switches the mode from Void to EventHorizon
SwitchesToHorizon == ~inEventHorizon /\ inEventHorizon'

\* C13: the mode switches from Void to EventHorizon only in a frame of an
\* active session, in the first frame whose eased camZoom is at or above
\* MAX_ZOOM - 0.05 and never in a frame whose eased camZoom is below it; only
\* Escape or a new enter() clears the mode, so a session without Escape
\* switches at most once; horizonAlpha restarts from 0 in the switching
\* frame and in no other frame.
C13_SwitchOnceAtThreshold ==
    [][/\ SwitchesToHorizon => FrameRan
       /\ FrameRan =>
            /\ SwitchesToHorizon <=>
                 (~inEventHorizon /\ camZoom' >= MAX_ZOOM - HorizonEps)
            /\ horizonAlpha' =
                 IF SwitchesToHorizon THEN HorizonFade(0)
                 ELSE IF inEventHorizon THEN HorizonFade(horizonAlpha)
                 ELSE horizonAlpha
       /\ (inEventHorizon /\ ~inEventHorizon') =>
            (trace'.calls = <<"onHyperKey">> \/ EnterCalled)
       /\ horizonAlpha' < horizonAlpha =>
            (EnterCalled \/ (FrameRan /\ SwitchesToHorizon))]_vars

\* the switching frame of a session whose only input was a wheel event
C13_Witness ==
    /\ trace.calls = <<"renderLoop">>
    /\ trace.scene = "horizon"
    /\ inEventHorizon
    /\ horizonAlpha = HorizonStep
    /\ inputCount = 1

\* C14: in every reachable state EventHorizon mode implies that camZoom is
\* at or above MAX_ZOOM - 0.05.
C14_HorizonImpliesThreshold ==
    inEventHorizon => camZoom >= MAX_ZOOM - HorizonEps

\* C15: in every reachable state EventHorizon mode implies an active
\* session: exit() leaves EventHorizon mode.
C15_HorizonImpliesExpanded == inEventHorizon => isExpanded

\* C15 (amended): the mode flag is set only by a frame of an active session;
\* exit() leaves the flag as it is; enter() from the inactive state clears it.
C15_HorizonSetOnlyWhileExpanded ==
    [][/\ SwitchesToHorizon => (isExpanded /\ isExpanded')
       /\ (isExpanded /\ ~isExpanded') => inEventHorizon' = inEventHorizon
       /\ (~isExpanded /\ isExpanded') => ~inEventHorizon']_vars

\* exit() has ended a session that was in EventHorizon mode
C15_Witness ==
    /\ CountOf(trace.calls, "exit") = 1
    /\ ~isExpanded
    /\ inEventHorizon

\* C16: when the target zoom is MAX_ZOOM in Void mode of a session whose
\* frames are running, then eventually the engine is in EventHorizon mode,
\* just switched with horizonAlpha one step above 0, unless the session has
\* ended or the target zoom has been moved first.
TargetAtMaxInVoid ==
    /\ isExpanded /\ rafPending # {}
    /\ ~inEventHorizon
    /\ targetZoom = MAX_ZOOM
    /\ FrameNo + SettleFrames <= MaxFrames

JustSwitched ==
    /\ isExpanded /\ inEventHorizon
    /\ trace.calls = <<"renderLoop">> /\ trace.scene = "horizon"
    /\ horizonAlpha = HorizonFade(0)

C16_TargetAtMaxReachesHorizon ==
    TargetAtMaxInVoid ~>
        (JustSwitched \/ ~isExpanded \/ targetZoom # MAX_ZOOM)

\* two wheel events brought the target to MAX_ZOOM and the mode has switched
C16_Witness ==
    /\ JustSwitched
    /\ targetZoom = MAX_ZOOM
    /\ inputCount = 2

\* C17: while EventHorizon mode persists in a session, each frame raises
\* horizonAlpha by 0.015 up to the clamp at 1 and no step lowers it; from the
\* switching frame, which leaves it one step above 0, it is at least 0.99
\* within 70 frames.
C17_HorizonAlphaRises ==
    /\ [](horizonAlpha >= 0 /\ horizonAlpha <= Scale)
    /\ [](JustSwitched =>
            LET a == RenderLoopN(Camera, 23)
                b == RenderLoopN(a, 23)
                c == RenderLoopN(b, 23)
            IN  /\ a.inEventHorizon /\ a.horizonAlpha >= horizonAlpha
                /\ b.inEventHorizon /\ b.horizonAlpha >= a.horizonAlpha
                /\ c.inEventHorizon
                /\ c.horizonAlpha >= (99 * Scale) \div 100)
    /\ [][(isExpanded /\ isExpanded' /\ inEventHorizon /\ inEventHorizon') =>
            /\ horizonAlpha' >= horizonAlpha
            /\ FrameRan =>
                 horizonAlpha' = Min(Scale, horizonAlpha + HorizonStep)]_vars

\* the horizon has faded in fully
C17_Witness ==
    /\ isExpanded /\ inEventHorizon
    /\ trace.calls = <<"renderLoop">>
    /\ horizonAlpha = Scale

\* C18: in a session that has handled no input event, after 50 frames
\* entryAlpha is exactly 1 (one step of 0.02 per frame before that), current
\* and target yaw, pitch and zoom are 0 and the mode is Void.
C18_FiftyFramesNoInput ==
    (isExpanded /\ inputCount = 0) =>
        /\ entryAlpha = Min(Scale, FrameNo * EntryStep)
        /\ FrameNo >= 50 => entryAlpha = Scale
        /\ camYaw = 0 /\ camPitch = 0 /\ camZoom = 0
        /\ targetYaw = 0 /\ targetPitch = 0 /\ targetZoom = 0
        /\ ~inEventHorizon

\* enter() and 50 frame callbacks have run with no input
C18_Witness ==
    /\ isExpanded /\ inputCount = 0
    /\ trace.calls = <<"renderLoop">>
    /\ FrameNo = 51
    /\ entryAlpha = Scale

\* C20: a wheel event handled in EventHorizon mode changes no camera, mode
\* or session variable; one handled in Void mode changes target zoom only,
\* to targetZoom + 0.003 * deltaY clamped to [0, MAX_ZOOM].
C20_WheelOnlyInVoid ==
    [][trace'.calls = <<"onHyperWheel">> =>
         /\ UNCHANGED <<camYaw, camPitch, targetYaw, targetPitch, camZoom,
                        hyperTime, entryAlpha, inEventHorizon, horizonAlpha>>
         /\ UNCHANGED <<isExpanded, hyperCtx, hyperAnimId, rafPending,
                        listeners, activeClass, canvasSize>>
         /\ IF inEventHorizon
            THEN targetZoom' = targetZoom
            ELSE \E deltaY \in WheelDeltas :
                   targetZoom' =
                     Max(0, Min(MAX_ZOOM, targetZoom + WheelGain * deltaY))]_vars

\* a wheel event has been handled in EventHorizon mode
C20_Witness ==
    /\ trace.calls = <<"onHyperWheel">>
    /\ isExpanded /\ inEventHorizon
    /\ targetZoom = MAX_ZOOM
    /\ inputCount = 2

\* the depth proj divides by for the world point p
DepthOf(p) == CameraSpace(p)[3] + CamDist - camZoom

\* consecutive points of a polyline, as segments
Consecutive(pts) == [k \in 1..(Len(pts) - 1) |-> <<pts[k], pts[k + 1]>>]

\* the segments a part of the scene may draw
RECURSIVE RingPairs(_)
RingPairs(ring) ==
    IF ring >= SphereRings THEN << >>
    ELSE Consecutive(RingPoints(ring)) \o RingPairs(ring + 1)

RECURSIVE LongitudePairs(_)
LongitudePairs(seg) ==
    IF seg >= SphereSegments THEN << >>
    ELSE Consecutive(LongitudePoints(seg)) \o LongitudePairs(seg + 1)

PartPairs(part) ==
    CASE part = "grid"      -> GridPairs
      [] part = "outerCube" -> OuterPairs
      [] part = "innerCube" -> InnerPairs
      [] part = "hyper"     -> HyperPairs
      [] part = "latitude"  -> RingPairs(1)
      [] part = "longitude" -> LongitudePairs(0)

\* the segments of a part both of whose end points are deeper than 0.1
Visible(pairs) ==
    SelectSeq(pairs, LAMBDA e : DepthOf(e[1]) > DepthCull
                                /\ DepthOf(e[2]) > DepthCull)

\* C19: every end point handed to a line-drawing call is a projected point
\* whose depth (rotated z + 5 - camZoom) is above 0.1, so the divide is done
\* only at such a depth; the lines drawn are, in order, exactly the segments
\* with both end points above 0.1: a cube edge, grid line, hyper-connection
\* or sphere segment with a culled end point draws nothing.
C19_CulledPointsNeverDrawn ==
    trace.calls # << >> =>
        LET lines == trace.lines
            seen  == Visible(PartPairs(trace.calls[1]))
            w     == canvasSize[1]
            h     == canvasSize[2]
        IN  /\ \A i \in DOMAIN lines :
                 /\ lines[i].from # Null /\ lines[i].to # Null
                 /\ lines[i].from[3] > DepthCull /\ lines[i].to[3] > DepthCull
            /\ Len(lines) = Len(seen)
            /\ \A i \in DOMAIN lines :
                 /\ lines[i].from[3] = DepthOf(seen[i][1])
                 /\ lines[i].to[3] = DepthOf(seen[i][2])

\* the outer cube has been drawn with some of its edges culled, one of them
\* with one end point visible
C19_Witness ==
    /\ trace.calls = <<"outerCube">>
    /\ Len(trace.lines) > 0
    /\ Len(trace.lines) < Len(OuterPairs)
    /\ \E i \in DOMAIN OuterPairs :
         /\ DepthOf(OuterPairs[i][1]) <= DepthCull
         /\ DepthOf(OuterPairs[i][2]) > DepthCull

\* the handlers of the engine that an event or the host can run
EngineHandlers ==
    {"onHyperMouse", "onHyperKey", "onHyperWheel", "onHyperResize",
     "renderLoop"}

HandlerRan == \E i \in DOMAIN trace'.calls : trace'.calls[i] \in EngineHandlers

\* C21: the step that ends a session leaves the current and target yaw,
\* pitch and zoom, both alphas, the mode flag and the clock as they were,
\* and a step taken while the session is and stays inactive changes no
\* engine variable and runs no frame callback and no input handler.
C21_InactiveEngineFrozen ==
    [][ /\ (isExpanded /\ ~isExpanded') => UNCHANGED camVars
        /\ (~isExpanded /\ ~isExpanded') =>
               (UNCHANGED engineVars /\ ~HandlerRan) ]_vars

\* a session that moved the camera has ended and an event has since been
\* delivered to no handler
C21_Witness ==
    /\ ~isExpanded
    /\ camZoom > 0 /\ targetZoom > 0 /\ entryAlpha > 0 /\ hyperTime > 0
    /\ targetYaw # 0
    /\ trace.calls = << >>

\* the values that ease or advance, as opposed to the targets and the flag
currentVars == <<camYaw, camPitch, camZoom, entryAlpha, horizonAlpha, hyperTime>>

\* what enter() and exit() own besides the camera
lifeVars == <<isExpanded, hyperCtx, hyperAnimId, rafPending, listeners,
              activeClass>>

FirstCall(name) == Len(trace'.calls) > 0 /\ trace'.calls[1] = name

\* C22: the pointer handler changes target yaw and target pitch only, the
\* wheel handler target zoom only, the key handler the mode flag and target
\* zoom only unless it calls exit(), the resize handler the canvas size
\* only; the current yaw, pitch and zoom, both alphas and the clock change
\* in no step other than a frame callback or enter().
C22_HandlersOnlySetTargets ==
    [][ /\ FirstCall("onHyperMouse") =>
               UNCHANGED <<currentVars, targetZoom, inEventHorizon,
                           lifeVars, canvasSize>>
        /\ FirstCall("onHyperWheel") =>
               UNCHANGED <<currentVars, targetYaw, targetPitch, inEventHorizon,
                           lifeVars, canvasSize>>
        /\ FirstCall("onHyperKey") =>
               /\ UNCHANGED <<currentVars, targetYaw, targetPitch, canvasSize>>
               /\ \/ UNCHANGED lifeVars
                  \/ /\ trace'.calls[2] = "exit"
                     /\ UNCHANGED <<targetZoom, inEventHorizon>>
        /\ FirstCall("onHyperResize") => UNCHANGED <<camVars, lifeVars>>
        /\ currentVars' # currentVars =>
               (trace'.calls = <<"renderLoop">> \/ EnterCalled) ]_vars

\* Escape has just been handled in EventHorizon mode with the camera still
\* short of both the old and the new target
C22_Witness ==
    /\ isExpanded /\ ~inEventHorizon
    /\ trace.calls = <<"onHyperKey">>
    /\ targetZoom = RetreatZoom
    /\ camZoom > RetreatZoom /\ camZoom < MAX_ZOOM
    /\ horizonAlpha > 0

\* C23: in a step that starts and ends with the session active, the
\* EventHorizon flag goes from set to cleared only if the step is the key
\* handler; a frame that starts with the flag set keeps it and draws the
\* Event-Horizon scene, whatever the camera zoom.
C23_OnlyEscapeLeavesHorizon ==
    [][ /\ (isExpanded /\ isExpanded' /\ inEventHorizon /\ ~inEventHorizon')
               => trace'.calls = <<"onHyperKey">>
        /\ (FrameRan /\ inEventHorizon)
               => (inEventHorizon' /\ trace'.scene = "horizon")
      ]_vars

\* a frame has drawn the Event-Horizon scene with the camera below the
\* threshold
C23_Witness ==
    /\ isExpanded /\ inEventHorizon
    /\ camZoom < MAX_ZOOM - HorizonEps
    /\ trace.calls = <<"renderLoop">> /\ trace.scene = "horizon"

\* C24: in every reachable state the camera zoom and the target zoom are
\* both in [0, MAX_ZOOM].
C24_ZoomWithinRange ==
    /\ camZoom >= 0 /\ camZoom <= MAX_ZOOM
    /\ targetZoom >= 0 /\ targetZoom <= MAX_ZOOM

\* the camera has eased to within the epsilon of a target at MAX_ZOOM
C24_Witness ==
    /\ isExpanded
    /\ targetZoom = MAX_ZOOM
    /\ camZoom >= MAX_ZOOM - HorizonEps
    /\ trace.calls = <<"renderLoop">>

\* new is cur moved pct/100 of the way to tgt, to the nearest unit of the
\* fixed-point scale: it lies between cur and tgt, and is tgt only if cur was
EasedBy(cur, new, tgt, pct) ==
    LET err == (new - cur) * 100 - (tgt - cur) * pct
    IN  /\ err >= -50 /\ err <= 50
        /\ tgt >= cur => (new >= cur /\ new <= tgt)
        /\ tgt <= cur => (new <= cur /\ new >= tgt)
        /\ new = tgt => cur = tgt

\* C25: a frame callback of an active session, in either mode, moves the
\* current yaw and pitch 0.05 and the current zoom 0.04 of the way to their
\* targets, without overshoot, and reaches a target only if it was there.
C25_FrameEasesTowardTarget ==
    [][ FrameRan =>
            /\ EasedBy(camYaw, camYaw', targetYaw, YawPitchSmooth)
            /\ EasedBy(camPitch, camPitch', targetPitch, YawPitchSmooth)
            /\ EasedBy(camZoom, camZoom', targetZoom, ZoomSmooth)
            /\ UNCHANGED <<targetYaw, targetPitch, targetZoom>> ]_vars

\* a frame in EventHorizon mode with yaw, pitch and zoom all still easing
C25_Witness ==
    /\ isExpanded /\ inEventHorizon
    /\ trace.calls = <<"renderLoop">> /\ trace.scene = "horizon"
    /\ targetYaw - camYaw > 20
    /\ targetPitch - camPitch > 20
    /\ targetZoom - camZoom > 25

\* C26: the camera zoom is at most the largest target zoom set since the
\* last enter() (0 at enter, then every value the wheel and the Escape
\* handler assigned), and the EventHorizon flag is clear as long as that
\* largest target is below MAX_ZOOM - 0.05.
C26_ZoomBelowLargestTarget ==
    /\ targetZoom <= maxTarget
    /\ camZoom <= maxTarget
    /\ maxTarget < MAX_ZOOM - HorizonEps => ~inEventHorizon

\* the target has been raised and then lowered to 0, and the camera is on
\* its way back, above the target and below the largest one
C26_Witness ==
    /\ isExpanded /\ ~inEventHorizon
    /\ trace.calls = <<"renderLoop">>
    /\ maxTarget > 0 /\ maxTarget < MAX_ZOOM - HorizonEps
    /\ targetZoom = 0
    /\ camZoom > 0

\* renderLoop ran past its guard in the step: as the callback of a frame of
\* an active session, or as the call enter() makes once it has marked the
\* session active
RenderLoopRan == FrameRan \/ (EnterCalled /\ ~isExpanded)

\* C27: every run of renderLoop in an active session draws one scene, the
\* Event-Horizon scene if the flag is set after the threshold test of that
\* run and the Void scene otherwise, and leaves one frame requested.
C27_FrameDrawsOneSceneAndReschedules ==
    [][ RenderLoopRan =>
            /\ trace'.scene = IF inEventHorizon' THEN "horizon" ELSE "void"
            /\ Cardinality(rafPending') = 1
            /\ hyperAnimId' \in rafPending' ]_vars

\* C28: after a frame that drew the Void scene, the approach fade computed
\* from the camera zoom of that frame is in [0.4, 1] and is
\* 1 - 0.6 * camZoom / MAX_ZOOM (the clamp at 0 does not bind).
C28_ApproachFadeWithinRange ==
    trace.scene = "void" =>
        LET fade == ApproachFade(camZoom)
            err  == (Scale - fade) * MAX_ZOOM - camZoom * 6 * (Scale \div 10)
        IN  /\ fade >= 4 * (Scale \div 10) /\ fade <= Scale
            /\ 2 * err >= -MAX_ZOOM /\ 2 * err <= MAX_ZOOM

\* a Void frame drawn just short of the threshold
C28_Witness ==
    /\ isExpanded /\ ~inEventHorizon
    /\ trace.calls = <<"renderLoop">> /\ trace.scene = "void"
    /\ camZoom > MAX_ZOOM - 2 * HorizonEps
    /\ ApproachFade(camZoom) < 4 * (Scale \div 10) + 200

\* half of span/10 * pi: 0.8 pi for the yaw, 0.45 pi for the pitch
HalfRange(span) == RDiv(PiFix * span, 20)

Within(x, bound) == x >= -bound /\ x <= bound

\* C29: in every reachable state the target yaw and the current yaw are in
\* [-0.8 pi, 0.8 pi] and the target pitch and the current pitch are in
\* [-0.45 pi, 0.45 pi] (pointer events carry positions inside the viewport).
C29_LookWithinRange ==
    /\ Within(targetYaw, HalfRange(YawSpan))
    /\ Within(camYaw, HalfRange(YawSpan))
    /\ Within(targetPitch, HalfRange(PitchSpan))
    /\ Within(camPitch, HalfRange(PitchSpan))

\* the pointer is at the far corner of the viewport and the camera has all
\* but turned to it
C29_Witness ==
    /\ isExpanded
    /\ trace.calls = <<"renderLoop">>
    /\ targetYaw = HalfRange(YawSpan)
    /\ targetPitch = HalfRange(PitchSpan)
    /\ camYaw > HalfRange(YawSpan) - 50
    /\ camPitch > HalfRange(PitchSpan) - 50

EnterFromInactive == EnterCalled /\ ~isExpanded

\* C30: both alphas are in [0, 1] in every reachable state; a frame of an
\* active session, in either mode, advances the entry alpha by 0.02 up to 1
\* and no other step but enter() changes it; the horizon alpha changes only
\* in a frame that draws the Event-Horizon scene or in enter(), and
\* decreases only in enter() or in a frame that switches the mode, which
\* restarts it from 0.
C30_AlphasBoundedAndMonotone ==
    /\ [](/\ entryAlpha >= 0 /\ entryAlpha <= Scale
          /\ horizonAlpha >= 0 /\ horizonAlpha <= Scale)
    /\ [][ /\ FrameRan => entryAlpha' = Min(Scale, entryAlpha + EntryStep)
           /\ entryAlpha' # entryAlpha => (FrameRan \/ EnterFromInactive)
           /\ entryAlpha' < entryAlpha => EnterFromInactive
           /\ horizonAlpha' # horizonAlpha =>
                  \/ FrameRan /\ inEventHorizon' /\ trace'.scene = "horizon"
                  \/ EnterFromInactive
           /\ horizonAlpha' < horizonAlpha =>
                  \/ EnterFromInactive
                  \/ FrameRan /\ SwitchesToHorizon
           /\ (FrameRan /\ SwitchesToHorizon) => horizonAlpha' = HorizonStep
         ]_vars

\* a second switch to EventHorizon mode has restarted a horizon alpha that
\* the first had brought up, with the entry alpha at 1
C30_Witness ==
    /\ isExpanded /\ inEventHorizon
    /\ trace.calls = <<"renderLoop">>
    /\ targetZoom = RetreatZoom
    /\ horizonAlpha = HorizonStep
    /\ entryAlpha = Scale

ClickTimedOut == trace'.calls = <<"clickTimeout">>

\* C31: between handlers the click counter is 0, 1 or 2, and a counter
\* above 0 has a timeout pending that comes due 1.2 s after the latest
\* counted click.  A click while inactive is counted and restarts the
\* timeout; the third one resets the counter and calls enter().  A click
\* while active changes neither the counter nor the timeout and calls
\* nothing.  The counter changes in no other step but the timeout, which
\* resets it.
C31_ClickCounterResets ==
    /\ [](/\ clickCount \in 0..(ClickThreshold - 1)
          /\ clickCount = Len(clickAges)
          /\ clickCount > 0 =>
                 /\ clickAges[Len(clickAges)] < ClickWindowMs
                 /\ clickTimer = ClickWindowMs - clickAges[Len(clickAges)])
    /\ [][ /\ (ClickHandled /\ isExpanded) =>
                  (UNCHANGED <<clickCount, clickTimer>>
                   /\ trace'.calls = <<"click">> /\ UNCHANGED engineVars)
           /\ (ClickHandled /\ ~isExpanded) =>
                  /\ clickTimer' = ClickWindowMs
                  /\ IF clickCount = ClickThreshold - 1
                     THEN clickCount' = 0 /\ trace'.calls = <<"click", "enter">>
                     ELSE clickCount' = clickCount + 1
                          /\ trace'.calls = <<"click">>
           /\ ClickTimedOut => (clickCount' = 0 /\ clickTimer' = -1)
           /\ clickCount' # clickCount => (ClickHandled \/ ClickTimedOut)
         ]_vars

\* the second click came 0.8 s after the first and has restarted the timeout
C31_Witness ==
    /\ clickCount = 2
    /\ clickTimer = ClickWindowMs
    /\ clickAges[1] >= 2 * TickMs
    /\ trace.calls = <<"click">>

\* C32: enter() on an inactive engine runs the first frame step itself:
\* after the call the entry alpha is 0.02 and the clock 0.016, and when the
\* call has returned (it has not thrown) exactly one frame callback is
\* pending, the one that step requested.
C32_EnterRunsFirstFrame ==
    [][ EnterFromInactive =>
            /\ entryAlpha' = EntryFade(0) /\ entryAlpha' = 2 * (Scale \div 100)
            /\ hyperTime' = FrameMs
            /\ ~trace'.threw =>
                   /\ rafPending' = {hyperAnimId'}
                   /\ hyperAnimId' # 0
                   /\ trace'.scene = "void" ]_vars

\* enter() has returned with the first frame step applied and the next
\* frame requested
C32_Witness ==
    /\ trace.calls = <<"enter">> /\ ~trace.threw
    /\ isExpanded
    /\ entryAlpha = EntryStep /\ hyperTime = FrameMs
    /\ rafPending = {hyperAnimId}
    /\ inputCount = 0 /\ trace.scene = "void"

\* exit() ran with a callback that called enter()
Reentered == trace'.calls = <<"exit", "onExit", "enter">>

\* C33: enter() called from the exit callback, or after exit() has
\* returned, leaves one active session: the camera reset (and advanced by
\* the first frame step), each listener attached once and exactly one frame
\* pending, the one that enter() requested; no frame is ever pending that
\* the current session did not request, and never more than one.
C33_ReentryLeavesOneSession ==
    /\ [](/\ Cardinality(rafPending) <= 1
          /\ rafPending # {} => (isExpanded /\ rafPending = {hyperAnimId}))
    /\ [][ (Reentered \/ EnterFromInactive) =>
               /\ isExpanded' /\ AllAttachedOnce'
               /\ rafPending' = {hyperAnimId'} /\ hyperAnimId' # 0
               /\ camYaw' = 0 /\ camPitch' = 0 /\ camZoom' = 0
               /\ targetYaw' = 0 /\ targetPitch' = 0 /\ targetZoom' = 0
               /\ entryAlpha' = EntryStep /\ hyperTime' = FrameMs
               /\ ~inEventHorizon' /\ horizonAlpha' = 0 ]_vars

\* no vertex of the outer cube or of the rotated inner cube is culled
NoVertexCulled ==
    \A i \in DOMAIN outerV :
        DepthOf(outerV[i]) > DepthCull /\ DepthOf(rotInner[i]) > DepthCull

\* the lines drawn are those from point a[i] to point b[i], i = 1 .. n
JoinsInOrder(lines, n, a, b) ==
    /\ Len(lines) = n
    /\ \A i \in 1..n :
         lines[i] = Line(Xform(a[i], canvasSize[1], canvasSize[2]),
                         Xform(b[i], canvasSize[1], canvasSize[2]))

EdgeEnds(v, k) == [i \in DOMAIN edges |-> v[edges[i][k]]]

\* C34 as stated: with no vertex culled the hyper-connections drawn are
\* twelve lines, the outer cube twelve edges and the inner cube twelve edges.
C34_TwelveHyperConnections ==
    NoVertexCulled =>
        /\ trace.calls = <<"hyper">> => Len(trace.lines) = 12
        /\ trace.calls = <<"outerCube">> => Len(trace.lines) = 12
        /\ trace.calls = <<"innerCube">> => Len(trace.lines) = 12

\* C34 amended: with no vertex culled the hyper-connections drawn are eight
\* lines, one per vertex, line i from outer vertex i to inner vertex i (as
\* rotated in that frame); the outer cube and the inner cube are drawn as
\* twelve edges each, edge i between the vertices edges[i] names.
C34_EightHyperConnections ==
    NoVertexCulled =>
        /\ trace.calls = <<"hyper">> =>
               JoinsInOrder(trace.lines, 8, outerV, rotInner)
        /\ trace.calls = <<"outerCube">> =>
               JoinsInOrder(trace.lines, 12, EdgeEnds(outerV, 1), EdgeEnds(outerV, 2))
        /\ trace.calls = <<"innerCube">> =>
               JoinsInOrder(trace.lines, 12, EdgeEnds(rotInner, 1),
                            EdgeEnds(rotInner, 2))

\* the hyper-connections have been drawn in a frame with all sixteen
\* vertices in front of the camera
C34_Witness ==
    /\ trace.calls = <<"hyper">>
    /\ NoVertexCulled
    /\ Len(trace.lines) = Len(outerV)
    /\ \A i \in DOMAIN trace.lines : trace.lines[i].from # trace.lines[i].to

\* a table of 8 vertices at the corners of a cube of half-size s
IsCubeTable(v, s) ==
    /\ Len(v) = 8
    /\ \A i \in 1..8 : \A k \in 1..3 : v[i][k] \in {0 - s, s}
    /\ \A i, j \in 1..8 : i # j => v[i] # v[j]

\* C35: in every reachable state the tables hold what the module body put
\* in them: 8 outer vertices at half-size 3.5, 8 inner vertices at half-size
\* 1.0 and 12 edges between vertex indices (0..7 in the source, 1..8 here).
C35_GeometryTablesUnchanged ==
    /\ geometry = InitialGeometry
    /\ IsCubeTable(outerV, OuterHalf)
    /\ IsCubeTable(innerV, InnerHalf)
    /\ Len(edges) = 12
    /\ \A i \in 1..12 : edges[i][1] \in 1..8 /\ edges[i][2] \in 1..8

\* a frame has drawn the Void scene with the inner cube turned away from
\* its table, after input has been handled
C35_Witness ==
    /\ isExpanded
    /\ trace.calls = <<"renderLoop">> /\ trace.scene = "void"
    /\ inputCount > 0
    /\ rotInner # innerV

navVars == <<cardCount, currentIndex, isAnimating, animTimer, animAge,
             cardClass, dotActive, hintShown>>

\* the step ran a handler that asks for a navigation
NavRequest ==
    /\ Len(trace'.calls) = 2 /\ trace'.calls[1] = "stack"
    /\ trace'.calls[2] \in {"arrow", "dot", "card", "wheel", "keydown", "touchend"}

\* C36: once the stack is initialised, currentIndex is in 0 .. cards - 1 and
\* the card at currentIndex, and no other, carries 'active' (the same for
\* the dots); isAnimating holds exactly while its timeout is pending, which
\* comes due 500 ms after it was set.  A navigation request in a state with
\* isAnimating set changes nothing; isAnimating is set only by an accepted
\* navigation and cleared only by the timeout, 500 ms later.
C36_StackIndexAndAnimationLock ==
    /\ [](cardCount > 0 =>
            /\ currentIndex \in Cards
            /\ {i \in Cards : "active" \in cardClass[i]} = {currentIndex}
            /\ dotActive = {currentIndex}
            /\ isAnimating <=> animTimer >= 0
            /\ isAnimating => (animAge < AnimMs /\ animTimer = AnimMs - animAge))
    /\ [][ /\ (NavRequest /\ isAnimating) => UNCHANGED navVars
           /\ (isAnimating /\ ~isAnimating') =>
                  /\ trace'.calls = <<"stack", "timeout">>
                  /\ animAge' >= AnimMs /\ animAge' < AnimMs + StackTickMs
           /\ (~isAnimating /\ isAnimating') =>
                  /\ NavRequest
                  /\ currentIndex' # currentIndex
                  /\ animAge' = 0
           /\ currentIndex' # currentIndex => (NavRequest /\ ~isAnimating)
         ]_vars

\* a wheel event has arrived in the middle of the animation to a card
C36_Witness ==
    /\ cardCount = MaxCards
    /\ trace.calls = <<"stack", "wheel">>
    /\ isAnimating /\ animAge > 0
    /\ currentIndex > 0 /\ currentIndex < cardCount - 1


\* C37: the number of live organisms never exceeds CONFIG.organisms.maxCount
\* (10), whatever the initial burst, the periodic spawns, the hovers over
\* the logo and the deaths did.
C37_LiveOrganismsAtMostMaxCount == Len(organisms) <= MaxCount

====
